---- MODULE Spec2Model ----
(***************************************************************************)
(* A model of the resume analyzers of CareerCompassAI:                     *)
(*   services/advanced_resume_analyzer.py  (AdvancedResumeAnalyzer)        *)
(*   services/realtime_resume_analyzer.py  (RealtimeResumeAnalyzer)        *)
(*   services/resume_analyzer.py           (ResumeAnalyzer)                *)
(*                                                                         *)
(* Spec       one call of analyze_resume / analyze_resume_realtime: the    *)
(*            extraction fallback chain, the validation and the stages.    *)
(* SpecScore  AdvancedResumeAnalyzer.calculate_overall_score.              *)
(* SpecSkills AdvancedResumeAnalyzer.extract_comprehensive_skills.         *)
(* SpecRecs   AdvancedResumeAnalyzer.generate_detailed_job_recommendations.*)
(* SpecLevel  determine_experience_level of the advanced and the basic     *)
(*            analyzer and analyze_experience_realtime.                    *)
(* SpecSuggest AdvancedResumeAnalyzer.generate_improvement_suggestions.    *)
(***************************************************************************)
EXTENDS Integers, Sequences, FiniteSets, TLC

VARIABLES
    analyzer,             \* which class the call runs on
    pc,                   \* position of the call
    text,                 \* the local `text` of the extraction function
    extraction_metadata,  \* advanced: the metadata dict of extract_text_from_pdf
    extraction_info,      \* realtime: the info dict of extract_text_realtime
    extracted_text,       \* the text returned by the extraction function
    attempts,             \* history: what each strategy did, in order
    raw_words,            \* history: len(readable_words) of the raw-byte scan
    invoked,              \* history: the stages analyze_resume has called
    score_in,             \* calculate_overall_score: the arguments
    score_breakdown,      \* calculate_overall_score: the returned dict
    skill_text,           \* extract_comprehensive_skills: the argument
    skills_analysis,      \* extract_comprehensive_skills: the returned dict
    match_counts,         \* history: len(matches) behind each confidence
    rec_in,               \* generate_detailed_job_recommendations: arguments
    recommendations,      \* generate_detailed_job_recommendations: result
    warnings,             \* the role types logged by its except block
    exp_in,               \* the arguments of the experience classifier
    exp_analysis,         \* the experience_analysis the classifier returns
    sug_in,               \* generate_improvement_suggestions: the arguments
    suggestions,          \* generate_improvement_suggestions: the result
    now,                  \* the clock datetime.now() reads
    call,                 \* analyze_resume: the locals of the call in progress
    reports,              \* history: what every finished call gave its caller
    reference_tables      \* the tables the constructor gave the instance

callVars == <<analyzer, pc, text, extraction_metadata, extraction_info,
              extracted_text, attempts, raw_words, invoked>>
scoreVars == <<score_in, score_breakdown>>
skillVars == <<skill_text, skills_analysis, match_counts>>
recVars == <<rec_in, recommendations, warnings>>
stageVars == <<exp_in, exp_analysis, sug_in, suggestions>>
pipeVars == <<now, call, reports, reference_tables>>
vars == <<callVars, scoreVars, skillVars, recVars, stageVars, pipeVars>>

Idle == "idle"

PipelineIdle ==
    /\ now = Idle /\ call = Idle /\ reports = Idle
    /\ reference_tables = Idle

StagesIdle ==
    /\ exp_in = Idle /\ exp_analysis = Idle
    /\ sug_in = Idle /\ suggestions = Idle
    /\ PipelineIdle

(***************************************************************************)
(* Bounds                                                                  *)
(***************************************************************************)
MaxPages == 1

(***************************************************************************)
(* Strings by length.  A string is a sequence of runs; a run is n          *)
(* characters that are either all whitespace ("ws") or a body that starts  *)
(* and ends with a non-whitespace character ("ch"); src is the strategy    *)
(* that produced the characters.  len() and strip() are exact on this      *)
(* representation.                                                         *)
(***************************************************************************)
Run(k, n, s) == [k |-> k, n |-> n, src |-> s]

Str(lead, body, trail, s) ==
    (IF lead > 0 THEN <<Run("ws", lead, s)>> ELSE <<>>) \o
    (IF body > 0 THEN <<Run("ch", body, s)>> ELSE <<>>) \o
    (IF trail > 0 THEN <<Run("ws", trail, s)>> ELSE <<>>)

RECURSIVE StrLen(_)
StrLen(t) == IF t = <<>> THEN 0 ELSE Head(t).n + StrLen(Tail(t))

RECURSIVE LStrip(_)
LStrip(t) == IF t = <<>> THEN <<>>
             ELSE IF Head(t).k = "ws" THEN LStrip(Tail(t)) ELSE t

RECURSIVE RStrip(_)
RStrip(t) == IF t = <<>> THEN <<>>
             ELSE IF t[Len(t)].k = "ws" THEN RStrip(SubSeq(t, 1, Len(t) - 1))
             ELSE t

Strip(t) == RStrip(LStrip(t))

Digits(i) == IF i < 10 THEN 1 ELSE IF i < 100 THEN 2 ELSE 3

\* f"\n--- Page {page_num + 1} ---\n"
PageMarker(i, s) == Str(1, 13 + Digits(i), 1, s)

\* f"\n--- Table {table_num + 1} on Page {page_num + 1} ---\n"
TableMarker(j, i, s) == Str(1, 23 + Digits(j) + Digits(i), 1, s)

(***************************************************************************)
(* What a PDF library can do with the bytes.  A page is the text the       *)
(* library returns for it (lead/body/trail characters) and, for            *)
(* pdfplumber, the number of characters of its single table row.           *)
(***************************************************************************)
PageTexts == { [lead |-> 0, body |-> 0, trail |-> 0],      \* ""
               [lead |-> 2, body |-> 0, trail |-> 0],      \* whitespace only
               [lead |-> 0, body |-> 90, trail |-> 1],
               [lead |-> 1, body |-> 190, trail |-> 0] }

TableRows == {0, 20}

Pages(withTables) ==
    { [txt |-> p, row |-> r] : p \in PageTexts,
                               r \in IF withTables THEN TableRows ELSE {0} }

Docs(withTables) ==
    UNION { [1..n -> Pages(withTables)] : n \in 0..MaxPages }

\* opened: the document was opened (page_count is set); read: the pages
\* processed before the strategy raised or finished.
Attempts(withTables) ==
    { a \in [doc : Docs(withTables), opened : BOOLEAN,
             read : 0..MaxPages, raises : BOOLEAN] :
        /\ a.read <= Len(a.doc)
        /\ ~a.opened => (a.raises /\ a.read = 0)
        /\ ~a.raises => a.read = Len(a.doc) }

PageStr(p, s) == Str(p.txt.lead, p.txt.body, p.txt.trail, s)


\* The text one page adds to `text`.
\*   advanced: lines 251-255, 278-290, 311-314; realtime: lines 182-186,
\*   206-209, 227-230; basic: lines 95-98, 110-113.
PageContribution(an, m, i, p) ==
    LET pt == PageStr(p, m)
        nonblank == IF m = "pymupdf" THEN StrLen(Strip(pt)) > 0
                    ELSE StrLen(pt) > 0
        tables == IF m = "pdfplumber" /\ p.row > 0
                  THEN TableMarker(1, i, m) \o Str(0, p.row, 1, m)
                  ELSE <<>>
    IN IF an = "advanced"
       THEN (IF nonblank THEN PageMarker(i, m) \o pt ELSE <<>>) \o tables
       ELSE IF nonblank THEN pt \o Str(1, 0, 0, m) ELSE <<>>

RECURSIVE ReadPages(_, _, _, _, _)
ReadPages(an, m, doc, i, n) ==
    IF i > n THEN <<>>
    ELSE PageContribution(an, m, i, doc[i]) \o ReadPages(an, m, doc, i + 1, n)

\* What the raw-byte scan finds in the bytes: the cleaned text (whitespace
\* already collapsed to single spaces) and the number of readable words in
\* it (alphabetic, longer than 2 characters).
RawScans ==
    { [raises |-> TRUE,  words |-> 0,  lead |-> 0, body |-> 0,   trail |-> 0],
      [raises |-> FALSE, words |-> 0,  lead |-> 0, body |-> 0,   trail |-> 0],
      [raises |-> FALSE, words |-> 0,  lead |-> 1, body |-> 30,  trail |-> 0],
      [raises |-> FALSE, words |-> 20, lead |-> 0, body |-> 120, trail |-> 1],
      [raises |-> FALSE, words |-> 50, lead |-> 0, body |-> 199, trail |-> 0],
      [raises |-> FALSE, words |-> 51, lead |-> 0, body |-> 203, trail |-> 0],
      [raises |-> FALSE, words |-> 51, lead |-> 1, body |-> 260, trail |-> 1] }

(***************************************************************************)
(* AdvancedResumeAnalyzer.extract_text_from_pdf                            *)
(***************************************************************************)
Methods == <<"pymupdf", "pdfplumber", "pypdf2", "raw_bytes">>

MinLength == [pymupdf |-> 200, pdfplumber |-> 200, pypdf2 |-> 100]
MinReadableWords == 50
MinMeaningfulText == 50

Quality == [pymupdf |-> "excellent", pdfplumber |-> "good",
            pypdf2 |-> "basic", raw_bytes |-> "poor"]

ErrorMsg == [pymupdf |-> "PyMuPDF extraction failed",
             pdfplumber |-> "pdfplumber extraction failed",
             pypdf2 |-> "PyPDF2 extraction failed",
             raw_bytes |-> "Raw extraction failed"]

NoMethod == "None"

NewMetadata == [methods_tried |-> <<>>, successful_method |-> NoMethod,
                page_count |-> 0, extraction_quality |-> "unknown",
                errors |-> <<>>]

NewInfo == [method |-> "unknown", success |-> FALSE, text_length |-> 0,
            page_count |-> 0]

\* if len(text.strip()) > N
MeetsThreshold(m, t) == StrLen(Strip(t)) > MinLength[m]

\* variant: >= in place of >
EnoughWordsInclusive(n) == n >= MinReadableWords

\* if len(readable_words) > 50
EnoughWords(n) == n > MinReadableWords

\* variant: the last strategy runs outside a try block
CatchesLibrariesOnly(m) == m \in {"pymupdf", "pdfplumber", "pypdf2"}

\* each strategy runs inside its own try/except Exception
Catches(m) == m \in {"pymupdf", "pdfplumber", "pypdf2", "raw_bytes"}

\* variant: PyPDF2 is tried before pdfplumber
NextMethodSwapped(m) == CASE m = "pymupdf" -> "pypdf2"
                          [] m = "pypdf2" -> "pdfplumber"
                          [] m = "pdfplumber" -> "raw_bytes"

\* the strategy after m in the source text
NextMethod(m) == CASE m = "pymupdf" -> "pdfplumber"
                   [] m = "pdfplumber" -> "pypdf2"
                   [] m = "pypdf2" -> "raw_bytes"

\* variant: the error is logged but not recorded
OnErrorLoggedOnly(md, m) == md

\* except Exception as e: ... extraction_metadata['errors'].append(error_msg)
OnError(md, m) == [md EXCEPT !.errors = Append(@, ErrorMsg[m])]

Attempted(m, a, produced) ==
    [method |-> m, raised |-> a.raises, produced |-> produced]

\* One library strategy of extract_text_from_pdf (the three try blocks).
AdvLibrary(m, withTables) ==
    /\ analyzer = "advanced"
    /\ pc = m
    /\ \E a \in Attempts(withTables) :
        LET produced == ReadPages("advanced", m, a.doc, 1, a.read)
            t1 == text \o produced
            md1 == [extraction_metadata EXCEPT
                       !.methods_tried = Append(@, m),
                       !.page_count = IF a.opened THEN Len(a.doc) ELSE @]
        IN /\ attempts' = Append(attempts, Attempted(m, a, produced))
           /\ text' = t1
           /\ IF a.raises
              THEN IF Catches(m)
                   THEN /\ extraction_metadata' = OnError(md1, m)
                        /\ pc' = NextMethod(m)
                        /\ UNCHANGED extracted_text
                   ELSE /\ extraction_metadata' = md1
                        /\ pc' = "extract_raised"
                        /\ UNCHANGED extracted_text
              ELSE IF MeetsThreshold(m, t1)
                   THEN /\ extraction_metadata' =
                              [md1 EXCEPT !.successful_method = m,
                                          !.extraction_quality = Quality[m]]
                        /\ extracted_text' = t1
                        /\ pc' = "extracted"
                   ELSE /\ extraction_metadata' = md1
                        /\ pc' = NextMethod(m)
                        /\ UNCHANGED extracted_text
    /\ UNCHANGED <<analyzer, extraction_info, raw_words, invoked>>
    /\ UNCHANGED <<scoreVars, skillVars, recVars, stageVars, pipeVars>>

AdvPyMuPDF == AdvLibrary("pymupdf", FALSE)
AdvPdfplumber == AdvLibrary("pdfplumber", TRUE)
AdvPyPDF2 == AdvLibrary("pypdf2", FALSE)

\* The raw-byte strategy and the tail of the function (lines 327-357).
AdvRawBytes ==
    /\ analyzer = "advanced"
    /\ pc = "raw_bytes"
    /\ \E r \in RawScans :
        LET cleaned_text == Str(r.lead, r.body, r.trail, "raw_bytes")
            md1 == [extraction_metadata EXCEPT
                       !.methods_tried = Append(@, "raw_bytes")]
            failed == [md1 EXCEPT !.extraction_quality = "failed"]
        IN /\ attempts' = Append(attempts,
                             Attempted("raw_bytes", r,
                                       IF r.raises THEN <<>> ELSE cleaned_text))
           /\ raw_words' = r.words
           /\ IF r.raises
              THEN IF Catches("raw_bytes")
                   THEN /\ extraction_metadata' = OnError(failed, "raw_bytes")
                        /\ extracted_text' = <<>>
                        /\ pc' = "extracted"
                        /\ UNCHANGED text
                   ELSE /\ extraction_metadata' = md1
                        /\ pc' = "extract_raised"
                        /\ UNCHANGED <<text, extracted_text>>
              ELSE IF EnoughWords(r.words)
                   THEN /\ text' = cleaned_text
                        /\ extraction_metadata' =
                              [md1 EXCEPT
                                  !.successful_method = "raw_bytes",
                                  !.extraction_quality = Quality["raw_bytes"]]
                        /\ extracted_text' = cleaned_text
                        /\ pc' = "extracted"
                   ELSE /\ extraction_metadata' = failed
                        /\ extracted_text' = <<>>
                        /\ pc' = "extracted"
                        /\ UNCHANGED text
    /\ UNCHANGED <<analyzer, extraction_info, invoked>>
    /\ UNCHANGED <<scoreVars, skillVars, recVars, stageVars, pipeVars>>


(***************************************************************************)
(* RealtimeResumeAnalyzer.extract_text_realtime                            *)
(***************************************************************************)
RtMinLength == [pymupdf |-> 100, pdfplumber |-> 100]

\* pymupdf and pdfplumber test len(text.strip()) > 100; the PyPDF2 block
\* (lines 222-236) returns whatever it read.
RtMeetsThreshold(m, t) ==
    IF m = "pypdf2" THEN TRUE ELSE StrLen(Strip(t)) > RtMinLength[m]

\* One try block of extract_text_realtime; `text` is reset in each block.
RtLibrary(m) ==
    /\ analyzer = "realtime"
    /\ pc = m
    /\ \E a \in Attempts(FALSE) :
        LET t1 == ReadPages("realtime", m, a.doc, 1, a.read)
            info1 == [extraction_info EXCEPT
                         !.page_count = IF a.opened THEN Len(a.doc) ELSE @]
        IN /\ attempts' = Append(attempts, Attempted(m, a, t1))
           /\ text' = IF a.opened THEN t1 ELSE text
           /\ IF ~a.raises /\ RtMeetsThreshold(m, t1)
              THEN /\ extraction_info' =
                         [info1 EXCEPT !.method = m, !.success = TRUE,
                                       !.text_length = StrLen(t1)]
                   /\ extracted_text' = t1
                   /\ pc' = "extracted"
              ELSE /\ extraction_info' = info1
                   /\ IF m = "pypdf2"
                      THEN /\ extracted_text' = <<>>
                           /\ pc' = "extracted"
                      ELSE /\ pc' = NextMethod(m)
                           /\ UNCHANGED extracted_text
    /\ UNCHANGED <<analyzer, extraction_metadata, raw_words, invoked>>
    /\ UNCHANGED <<scoreVars, skillVars, recVars, stageVars, pipeVars>>

RtPyMuPDF == RtLibrary("pymupdf")
RtPdfplumber == RtLibrary("pdfplumber")
RtPyPDF2 == RtLibrary("pypdf2")

(***************************************************************************)
(* ResumeAnalyzer.extract_text_from_pdf                                    *)
(***************************************************************************)
BasicMinLength == 100

BasicMeetsThreshold(t) == StrLen(Strip(t)) > BasicMinLength

\* The pdfplumber and PyPDF2 blocks (lines 92-120); `text` is shared.
BasicLibrary(m) ==
    /\ analyzer = "basic"
    /\ pc = m
    /\ \E a \in Attempts(FALSE) :
        LET produced == ReadPages("basic", m, a.doc, 1, a.read)
            t1 == text \o produced
        IN /\ attempts' = Append(attempts, Attempted(m, a, produced))
           /\ text' = t1
           /\ IF ~a.raises /\ BasicMeetsThreshold(t1)
              THEN /\ extracted_text' = t1
                   /\ pc' = "extracted"
              ELSE /\ pc' = IF m = "pdfplumber" THEN "pypdf2" ELSE "raw_bytes"
                   /\ UNCHANGED extracted_text
    /\ UNCHANGED <<analyzer, extraction_metadata, extraction_info,
                   raw_words, invoked>>
    /\ UNCHANGED <<scoreVars, skillVars, recVars, stageVars, pipeVars>>

BasicPdfplumber == BasicLibrary("pdfplumber")
BasicPyPDF2 == BasicLibrary("pypdf2")

\* The byte fallback (lines 122-132): returns the cleaned bytes, whatever
\* their length, or "" when decoding raises.
BasicRawBytes ==
    /\ analyzer = "basic"
    /\ pc = "raw_bytes"
    /\ \E r \in RawScans :
        LET cleaned == Str(r.lead, r.body, r.trail, "raw_bytes")
        IN /\ attempts' = Append(attempts,
                             Attempted("raw_bytes", r,
                                       IF r.raises THEN <<>> ELSE cleaned))
           /\ raw_words' = r.words
           /\ text' = IF r.raises THEN text ELSE cleaned
           /\ extracted_text' = IF r.raises THEN <<>> ELSE cleaned
           /\ pc' = "extracted"
    /\ UNCHANGED <<analyzer, extraction_metadata, extraction_info, invoked>>
    /\ UNCHANGED <<scoreVars, skillVars, recVars, stageVars, pipeVars>>

(***************************************************************************)
(* analyze_resume (advanced, basic) and analyze_resume_realtime            *)
(***************************************************************************)
Stages ==
    [advanced |-> <<"preprocess_text", "extract_comprehensive_skills",
                    "determine_experience_level",
                    "generate_detailed_job_recommendations",
                    "generate_improvement_suggestions",
                    "generate_interview_questions",
                    "calculate_overall_score">>,
     basic |-> <<"preprocess_text", "extract_skills",
                 "determine_experience_level",
                 "generate_job_recommendations",
                 "generate_improvement_suggestions",
                 "generate_interview_questions",
                 "calculate_overall_score">>,
     realtime |-> <<"clean_text_fast", "extract_skills_realtime",
                    "analyze_experience_realtime",
                    "generate_job_matches_realtime",
                    "calculate_resume_score_realtime",
                    "generate_improvement_suggestions_realtime">>]

FirstMethod == [advanced |-> "pymupdf", basic |-> "pdfplumber",
                realtime |-> "pymupdf"]

StageSet(an) == { Stages[an][i] : i \in 1..Len(Stages[an]) }

\* variant: the length test is missing
TooShortUnchecked(an, t, info) == an = "realtime" /\ ~info.success

\* if len(extracted_text.strip()) < 50   (advanced 1548, basic 516)
\* if not extraction_info['success'] or len(extracted_text.strip()) < 50
\*                                        (realtime 682)
TooShort(an, t, info) ==
    \/ an = "realtime" /\ ~info.success
    \/ StrLen(Strip(t)) < MinMeaningfulText

\* The validation after the extraction returned.  advanced/basic re-raise
\* the ValueError (raise e); realtime turns it into a failure result.
Validate ==
    /\ pc = "extracted"
    /\ pc' = IF TooShort(analyzer, extracted_text, extraction_info)
             THEN IF analyzer = "realtime" THEN "returned_failure"
                  ELSE "raised_ValueError"
             ELSE Stages[analyzer][1]
    /\ UNCHANGED <<analyzer, text, extraction_metadata, extraction_info,
                   extracted_text, attempts, raw_words, invoked>>
    /\ UNCHANGED <<scoreVars, skillVars, recVars, stageVars, pipeVars>>

\* the name score_breakdown is bound in analyze_resume_realtime (line 729)
ScoreBreakdownBound == FALSE

\* what the call does after its last stage: advanced and basic build the
\* result dict and return it; realtime's dict display reads score_breakdown,
\* and the NameError is turned into a failure result by the except clause.
Compile(an) ==
    IF an = "realtime" /\ ~ScoreBreakdownBound
    THEN "returned_failure" ELSE "returned"

\* One stage call of the pipeline, in the order of the source.
RunStage ==
    /\ pc \in StageSet(analyzer)
    /\ LET i == CHOOSE k \in 1..Len(Stages[analyzer]) : Stages[analyzer][k] = pc
       IN /\ invoked' = Append(invoked, pc)
          /\ pc' = IF i < Len(Stages[analyzer]) THEN Stages[analyzer][i + 1]
                   ELSE Compile(analyzer)
    /\ UNCHANGED <<analyzer, text, extraction_metadata, extraction_info,
                   extracted_text, attempts, raw_words>>
    /\ UNCHANGED <<scoreVars, skillVars, recVars, stageVars, pipeVars>>

Analyzers == {"advanced", "basic", "realtime"}

Init ==
    /\ analyzer \in Analyzers
    /\ pc = FirstMethod[analyzer]
    /\ text = <<>>
    /\ extraction_metadata = NewMetadata
    /\ extraction_info = NewInfo
    /\ extracted_text = <<>>
    /\ attempts = <<>>
    /\ raw_words = 0
    /\ invoked = <<>>
    /\ score_in = Idle /\ score_breakdown = Idle
    /\ skill_text = Idle /\ skills_analysis = Idle /\ match_counts = Idle
    /\ rec_in = Idle /\ recommendations = Idle /\ warnings = Idle
    /\ StagesIdle

Next ==
    \/ AdvPyMuPDF \/ AdvPdfplumber \/ AdvPyPDF2 \/ AdvRawBytes
    \/ RtPyMuPDF \/ RtPdfplumber \/ RtPyPDF2
    \/ BasicPdfplumber \/ BasicPyPDF2 \/ BasicRawBytes
    \/ Validate \/ RunStage

Spec == Init /\ [][Next]_vars


(***************************************************************************)
(* Properties of the extraction chain and of the validation                *)
(***************************************************************************)
ExtractionPcs == {"pymupdf", "pdfplumber", "pypdf2", "raw_bytes"}

\* extract_text_from_pdf / extract_text_realtime has returned normally
ExtractionReturned == pc \notin ExtractionPcs \cup {"extract_raised"}

AdvReturned == analyzer = "advanced" /\ ExtractionReturned

IsPrefix(s, t) == Len(s) <= Len(t) /\ \A i \in 1..Len(s) : s[i] = t[i]

\* the value of `text` after the first i strategies of the advanced chain
RECURSIVE TextAfter(_)
TextAfter(i) == IF i = 0 THEN <<>>
                ELSE TextAfter(i - 1) \o attempts[i].produced

\* strategy number i of the advanced chain ran to its threshold test and
\* passed it (thresholds as the documentation of the chain gives them)
PassedItsTest(i) ==
    /\ ~attempts[i].raised
    /\ CASE i = 1 -> StrLen(Strip(TextAfter(1))) > 200
         [] i = 2 -> StrLen(Strip(TextAfter(2))) > 200
         [] i = 3 -> StrLen(Strip(TextAfter(3))) > 100
         [] i = 4 -> raw_words > 50

RaisedCount == Cardinality({ i \in 1..Len(attempts) : attempts[i].raised })

\* C1: extract_text_from_pdf never propagates an exception, whatever each
\* of the four strategies does, and when no strategy passes its threshold
\* test it returns "" with extraction_quality 'failed' and
\* successful_method None.
C1_NeverRaisesAndFailsClean ==
    analyzer = "advanced" =>
        /\ pc # "extract_raised"
        /\ (ExtractionReturned /\ \A i \in 1..Len(attempts) : ~PassedItsTest(i))
              => /\ extracted_text = <<>>
                 /\ extraction_metadata.extraction_quality = "failed"
                 /\ extraction_metadata.successful_method = NoMethod

\* all four strategies raised and the function still returned the failure
C1_Witness ==
    /\ AdvReturned
    /\ Len(attempts) = 4
    /\ \A i \in 1..4 : attempts[i].raised
    /\ extraction_metadata.extraction_quality = "failed"
    /\ extracted_text = <<>>

\* C2: the strategies run in the order pymupdf, pdfplumber, pypdf2,
\* raw_bytes and the function returns at the first one that passes its
\* test: methods_tried is a prefix of the order, nothing runs after the
\* successful strategy, and successful_method is the last method tried.
C2_FixedOrderFirstSuccess ==
    analyzer = "advanced" =>
        /\ IsPrefix(extraction_metadata.methods_tried, Methods)
        /\ Len(attempts) = Len(extraction_metadata.methods_tried)
        /\ \A i \in 1..Len(attempts) :
              PassedItsTest(i) =>
                 /\ i = Len(attempts)
                 /\ ExtractionReturned
                 /\ extraction_metadata.successful_method = Methods[i]
        /\ (ExtractionReturned
              /\ extraction_metadata.successful_method # NoMethod) =>
                 /\ extraction_metadata.methods_tried # <<>>
                 /\ extraction_metadata.successful_method =
                       extraction_metadata.methods_tried[
                           Len(extraction_metadata.methods_tried)]
                 /\ PassedItsTest(Len(attempts))
        /\ (ExtractionReturned
              /\ extraction_metadata.successful_method = NoMethod) =>
                 extraction_metadata.methods_tried = Methods

\* pdfplumber succeeded after pymupdf fell short, and nothing ran after it
C2_Witness ==
    /\ AdvReturned
    /\ extraction_metadata.methods_tried = <<"pymupdf", "pdfplumber">>
    /\ extraction_metadata.successful_method = "pdfplumber"
    /\ ~attempts[1].raised

\* C3: a raising strategy never ends the extraction: each raising strategy
\* adds exactly one error string, the next strategy is still attempted, and
\* there are never more errors than methods tried.
C3_ErrorsRecordedAndContinue ==
    analyzer = "advanced" =>
        /\ Len(extraction_metadata.errors) = RaisedCount
        /\ Len(extraction_metadata.errors)
              <= Len(extraction_metadata.methods_tried)
        /\ \A i \in 1..Len(attempts) :
              (attempts[i].raised /\ i < 4) =>
                 /\ pc # "extract_raised"
                 /\ (ExtractionReturned \/ i < Len(attempts))
                       => Len(extraction_metadata.methods_tried) > i
                 /\ i = Len(attempts) => pc = Methods[i + 1]

\* pymupdf and pypdf2 raised, pdfplumber did not, and raw_bytes still ran
C3_Witness ==
    /\ AdvReturned
    /\ Len(attempts) = 4
    /\ attempts[1].raised /\ ~attempts[2].raised /\ attempts[3].raised
    /\ Len(extraction_metadata.errors) = 2

\* C4: in extract_text_from_pdf and in extract_text_realtime the result
\* names a successful method iff the returned text is non-empty and longer
\* than the minimum length of the named strategy.
C4_MethodNamedIffUsableText ==
    /\ AdvReturned =>
          LET m == extraction_metadata.successful_method
          IN /\ (m # NoMethod) <=> (extracted_text # <<>>)
             /\ m \in {"pymupdf", "pdfplumber"}
                   => StrLen(Strip(extracted_text)) > 200
             /\ m = "pypdf2" => StrLen(Strip(extracted_text)) > 100
             /\ m = "raw_bytes" => raw_words > 50
    /\ (analyzer = "realtime" /\ ExtractionReturned) =>
          LET named == extraction_info.success
                          /\ extraction_info.method # "unknown"
          IN /\ named <=> (extracted_text # <<>>)
             /\ (named /\ extraction_info.method \in {"pymupdf", "pdfplumber"})
                   => StrLen(Strip(extracted_text)) > 100

\* the original statement of C5: when none of the three libraries can parse
\* the bytes, the result is 'failed' with the empty string
C5_UnparseableAlwaysFails ==
    (AdvReturned /\ Len(attempts) = 4
       /\ \A i \in 1..3 : attempts[i].raised \/ attempts[i].produced = <<>>)
    => /\ extraction_metadata.extraction_quality = "failed"
       /\ extracted_text = <<>>

\* C5 (amended): when every library strategy raises or yields no text, the
\* function never raises; it returns the cleaned raw text with quality
\* 'poor' when the raw-byte scan finds more than 50 readable words, and
\* 'failed' with the empty string otherwise.
C5_UnparseableFailsUnlessRawScan ==
    /\ analyzer = "advanced" => pc # "extract_raised"
    /\ (AdvReturned /\ Len(attempts) = 4
          /\ \A i \in 1..3 : attempts[i].raised \/ attempts[i].produced = <<>>)
       => IF ~attempts[4].raised /\ raw_words > 50
          THEN /\ extraction_metadata.extraction_quality = "poor"
               /\ extraction_metadata.successful_method = "raw_bytes"
               /\ extracted_text = attempts[4].produced
               /\ extracted_text # <<>>
          ELSE /\ extraction_metadata.extraction_quality = "failed"
               /\ extraction_metadata.successful_method = NoMethod
               /\ extracted_text = <<>>

\* no library parsed the bytes and the raw-byte scan found 50 readable
\* words, one short of enough: the result is the failure
C5_Witness ==
    /\ AdvReturned
    /\ Len(attempts) = 4
    /\ \A i \in 1..3 : attempts[i].raised
    /\ ~attempts[4].raised /\ raw_words = 50
    /\ extraction_metadata.extraction_quality = "failed"

\* C6: when the extracted text has fewer than 50 characters after trimming,
\* analyze_resume ends by raising the validation error and none of the later
\* stages is invoked in that call.
C6_ShortTextRaisesBeforeStages ==
    (analyzer \in {"advanced", "basic"}
       /\ ExtractionReturned /\ pc # "extracted"
       /\ StrLen(Strip(extracted_text)) < 50)
    => /\ pc = "raised_ValueError"
       /\ invoked = <<>>

\* the advanced call ended with the validation error after a failed
\* extraction
C6_Witness ==
    /\ analyzer = "advanced"
    /\ pc = "raised_ValueError"
    /\ extraction_metadata.extraction_quality = "failed"
    /\ invoked = <<>>


(***************************************************************************)
(* AdvancedResumeAnalyzer.calculate_overall_score                          *)
(*                                                                         *)
(* The arguments are given by what the function reads of them: the number  *)
(* of technical skills, certifications and soft skills of skills_analysis, *)
(* the level, leadership indicators and confidence of experience_analysis, *)
(* the section count, word count, achievement and portfolio matches of the *)
(* text, and the extraction quality.                                       *)
(***************************************************************************)
Levels == {"junior", "mid", "senior"}

Min(a, b) == IF a < b THEN a ELSE b

\* confidence_factors summed without the cap of line 705
UncappedConfidence(level, total_skills, leadership, categories_with_skills) ==
    (IF level = "senior" THEN 70 ELSE IF level = "mid" THEN 60 ELSE 50)
      + (IF total_skills > 15 THEN 20 ELSE IF total_skills > 8 THEN 10 ELSE 0)
      + (IF leadership > 0 THEN 15 ELSE 0)
      + (IF categories_with_skills >= 4 THEN 10 ELSE 0)

\* the confidence determine_experience_level gives (lines 670-705)
ConfidenceOf(level, total_skills, leadership, categories_with_skills) ==
    LET base == IF level = "senior" THEN 70
                ELSE IF level = "mid" THEN 60 ELSE 50
        depth == IF total_skills > 15 THEN 20
                 ELSE IF total_skills > 8 THEN 10 ELSE 0
        lead == IF leadership > 0 THEN 15 ELSE 0
        breadth == IF categories_with_skills >= 4 THEN 10 ELSE 0
        sum == base + depth + lead + breadth
    IN IF sum < 95 THEN sum ELSE 95

ScoreInputs ==
    { [total_technical_skills |-> n, certifications |-> c, soft_skills |-> s,
       level |-> l, leadership_indicators |-> ld,
       confidence |-> ConfidenceOf(l, n, ld, Min(b, n)),
       section_count |-> sec, word_count |-> w,
       achievements |-> a, portfolio_links |-> pl,
       extraction_quality |-> q] :
        n \in {0, 5, 10, 15, 16}, c \in {0, 1}, s \in {2, 3},
        l \in Levels, ld \in {0, 1}, b \in {1, 4},
        sec \in 0..5, w \in {199, 200, 599, 600},
        a \in BOOLEAN, pl \in BOOLEAN,
        q \in {"excellent", "good", "basic", "poor"} }

\* lines 1428-1438
TechnicalSkillsScore(n) ==
    IF n >= 15 THEN 30 ELSE IF n >= 10 THEN 25 ELSE IF n >= 5 THEN 20 ELSE 10

\* lines 1441-1455
ExperienceQualityScore(in) ==
    Min(15 + (IF in.level = "senior" THEN 10
              ELSE IF in.level = "mid" THEN 5 ELSE 0)
           + (IF in.leadership_indicators > 0 THEN 5 ELSE 0)
           + (IF in.confidence > 80 THEN 5 ELSE 0),
        25)

\* analyze_resume_structure, lines 1242-1249
EstimatedLength(word_count) ==
    IF word_count < 200 THEN "too_short"
    ELSE IF word_count < 600 THEN "appropriate" ELSE "too_long"

\* lines 1458-1468
ContentStructureScore(in) ==
    Min(in.section_count * 3
           + (IF EstimatedLength(in.word_count) = "appropriate" THEN 5 ELSE 0),
        20)

\* lines 1471-1476
AchievementsScore(in) == IF in.achievements THEN 15 ELSE 5

\* lines 1479-1494
CompletenessScore(in) ==
    (IF in.certifications > 0 THEN 3 ELSE 0)
    + (IF in.portfolio_links THEN 4 ELSE 0)
    + (IF in.soft_skills >= 3 THEN 3 ELSE 0)

\* lines 1497-1505
ExtractionQualityScore(q) ==
    IF q = "excellent" THEN 5
    ELSE IF q = "good" THEN 3 ELSE IF q = "basic" THEN 1 ELSE 0

\* variant: the extraction bonus is part of the sum
TotalScoreWithBonus(sb) ==
    Min(sb.technical_skills + sb.experience_quality + sb.content_structure
        + sb.achievements + sb.completeness + sb.extraction_quality, 100)

\* lines 1508-1514
TotalScore(sb) ==
    Min(sb.technical_skills + sb.experience_quality + sb.content_structure
        + sb.achievements + sb.completeness, 100)

\* variant: > in place of >= on the ladder
GradeStrict(total) ==
    IF total > 90 THEN "A+" ELSE IF total > 85 THEN "A"
    ELSE IF total > 80 THEN "A-" ELSE IF total > 75 THEN "B+"
    ELSE IF total > 70 THEN "B" ELSE IF total > 65 THEN "B-"
    ELSE IF total > 60 THEN "C+" ELSE IF total > 55 THEN "C" ELSE "C-"

\* lines 1517-1534
Grade(total) ==
    IF total >= 90 THEN "A+" ELSE IF total >= 85 THEN "A"
    ELSE IF total >= 80 THEN "A-" ELSE IF total >= 75 THEN "B+"
    ELSE IF total >= 70 THEN "B" ELSE IF total >= 65 THEN "B-"
    ELSE IF total >= 60 THEN "C+" ELSE IF total >= 55 THEN "C" ELSE "C-"

\* strengths, in the order the function appends them
Strengths(in) ==
    (IF in.total_technical_skills >= 15
     THEN <<"Excellent technical skill diversity">>
     ELSE IF in.total_technical_skills >= 10
     THEN <<"Good technical skill range">> ELSE <<>>)
    \o (IF in.leadership_indicators > 0
        THEN <<"Leadership experience demonstrated">> ELSE <<>>)
    \o (IF in.achievements
        THEN <<"Quantifiable achievements included">> ELSE <<>>)
    \o (IF in.certifications > 0
        THEN <<"Professional certifications listed">> ELSE <<>>)
    \o (IF in.portfolio_links
        THEN <<"Portfolio/project links included">> ELSE <<>>)

\* areas_for_improvement, in the order the function appends them
AreasForImprovement(in) ==
    (IF in.total_technical_skills < 5
     THEN <<"Limited technical skills listed">> ELSE <<>>)
    \o (IF EstimatedLength(in.word_count) = "too_long"
        THEN <<"Resume may be too lengthy">>
        ELSE IF EstimatedLength(in.word_count) = "too_short"
        THEN <<"Resume lacks sufficient detail">> ELSE <<>>)
    \o (IF in.achievements THEN <<>>
        ELSE <<"Add quantifiable achievements">>)
    \o (IF in.soft_skills >= 3 THEN <<>>
        ELSE <<"Include more soft skills">>)
    \o (IF ExtractionQualityScore(in.extraction_quality) = 0
        THEN <<"PDF format may need optimization">> ELSE <<>>)

\* the dict the function returns, lines 1409-1536
CalculateOverallScore(in) ==
    LET sb == [technical_skills |->
                   TechnicalSkillsScore(in.total_technical_skills),
               experience_quality |-> ExperienceQualityScore(in),
               content_structure |-> ContentStructureScore(in),
               achievements |-> AchievementsScore(in),
               completeness |-> CompletenessScore(in),
               extraction_quality |->
                   ExtractionQualityScore(in.extraction_quality)]
        total == TotalScore(sb)
    IN [technical_skills |-> sb.technical_skills,
        experience_quality |-> sb.experience_quality,
        content_structure |-> sb.content_structure,
        achievements |-> sb.achievements,
        completeness |-> sb.completeness,
        extraction_quality |-> sb.extraction_quality,
        total_score |-> total,
        grade |-> Grade(total),
        strengths |-> Strengths(in),
        areas_for_improvement |-> AreasForImprovement(in)]

\* the dict before the sub-scores are filled in, lines 1411-1422
NewScoreBreakdown ==
    [technical_skills |-> 0, experience_quality |-> 0,
     content_structure |-> 0, achievements |-> 0, completeness |-> 0,
     extraction_quality |-> 0, total_score |-> 0, grade |-> "F",
     strengths |-> <<>>, areas_for_improvement |-> <<>>]

InitScore ==
    /\ analyzer = "advanced"
    /\ pc = "score_call"
    /\ text = <<>>
    /\ extraction_metadata = NewMetadata
    /\ extraction_info = NewInfo
    /\ extracted_text = <<>>
    /\ attempts = <<>>
    /\ raw_words = 0
    /\ invoked = <<>>
    /\ score_in \in ScoreInputs
    /\ score_breakdown = NewScoreBreakdown
    /\ skill_text = Idle /\ skills_analysis = Idle /\ match_counts = Idle
    /\ rec_in = Idle /\ recommendations = Idle /\ warnings = Idle
    /\ StagesIdle

ScoreCall ==
    /\ pc = "score_call"
    /\ score_breakdown' = CalculateOverallScore(score_in)
    /\ pc' = "score_returned"
    /\ UNCHANGED <<analyzer, text, extraction_metadata, extraction_info,
                   extracted_text, attempts, raw_words, invoked>>
    /\ UNCHANGED <<score_in, skillVars, recVars, stageVars, pipeVars>>

NextScore == ScoreCall

SpecScore == InitScore /\ [][NextScore]_vars

Scored == pc = "score_returned"

\* C7: total_score is the sum of the five sub-scores technical_skills,
\* experience_quality, content_structure, achievements and completeness,
\* clamped to [0,100]; it lies in [0,100] and does not include the
\* extraction_quality bonus: the same call with any other extraction
\* quality gives the same total_score and grade.
C7_TotalIsClampedSumOfFive ==
    Scored =>
        LET sum == score_breakdown.technical_skills
                   + score_breakdown.experience_quality
                   + score_breakdown.content_structure
                   + score_breakdown.achievements
                   + score_breakdown.completeness
        IN /\ score_breakdown.total_score =
                 (IF sum > 100 THEN 100 ELSE IF sum < 0 THEN 0 ELSE sum)
           /\ score_breakdown.total_score \in 0..100
           /\ \A q \in {"excellent", "good", "basic", "poor", "failed"} :
                 LET other == CalculateOverallScore(
                                 [score_in EXCEPT !.extraction_quality = q])
                 IN /\ other.total_score = score_breakdown.total_score
                    /\ other.grade = score_breakdown.grade

\* a call with the full extraction bonus whose five sub-scores sum to 100
C7_Witness ==
    /\ Scored
    /\ score_breakdown.extraction_quality = 5
    /\ score_breakdown.total_score = 100

GradeLadder == <<"C-", "C", "C+", "B-", "B", "B+", "A-", "A", "A+">>

\* C8: the grade is the step function of total_score given by the ladder
\* A+ >= 90, A >= 85, A- >= 80, B+ >= 75, B >= 70, B- >= 65, C+ >= 60,
\* C >= 55, C- below; 90 gives A+ and 89 gives A; 'F' is never returned.
C8_GradeLadder ==
    Scored =>
        LET t == score_breakdown.total_score
            steps == Cardinality({ th \in {55, 60, 65, 70, 75, 80, 85, 90} :
                                     t >= th })
        IN /\ score_breakdown.grade = GradeLadder[steps + 1]
           /\ score_breakdown.grade # "F"
           /\ t = 90 => score_breakdown.grade = "A+"
           /\ t = 89 => score_breakdown.grade = "A"

\* a total exactly on the top step
C8_Witness ==
    /\ Scored
    /\ score_breakdown.total_score = 90
    /\ score_breakdown.grade = "A+"

(***************************************************************************)
(* AdvancedResumeAnalyzer.extract_comprehensive_skills                     *)
(*                                                                         *)
(* Texts and skills are strings of characters: sequences of one-character  *)
(* strings.  The regular expressions of the function are \b<literal>\b,    *)
(* matched as re.finditer matches them.                                    *)
(***************************************************************************)
\* self.skill_database, in the order of the dict (lines 99-160); category
\* and subcategory names are keys, skills are strings of characters
SkillDatabase == <<
  [category |-> "programming_languages", subcategories |-> <<
    [subcategory |-> "python", skills |-> <<
        <<"p", "y", "t", "h", "o", "n">>,
        <<"p", "y">>,
        <<"d", "j", "a", "n", "g", "o">>,
        <<"f", "l", "a", "s", "k">>,
        <<"f", "a", "s", "t", "a", "p", "i">>,
        <<"p", "a", "n", "d", "a", "s">>,
        <<"n", "u", "m", "p", "y">> >>],
    [subcategory |-> "javascript", skills |-> <<
        <<"j", "a", "v", "a", "s", "c", "r", "i", "p", "t">>,
        <<"j", "s">>,
        <<"n", "o", "d", "e", ".", "j", "s">>,
        <<"n", "o", "d", "e", "j", "s">>,
        <<"r", "e", "a", "c", "t">>,
        <<"v", "u", "e">>,
        <<"a", "n", "g", "u", "l", "a", "r">> >>],
    [subcategory |-> "java", skills |-> <<
        <<"j", "a", "v", "a">>,
        <<"s", "p", "r", "i", "n", "g">>,
        <<"h", "i", "b", "e", "r", "n", "a", "t", "e">>,
        <<"m", "a", "v", "e", "n">>,
        <<"g", "r", "a", "d", "l", "e">> >>],
    [subcategory |-> "c++", skills |-> <<
        <<"c", "+", "+">>,
        <<"c", "p", "p">>,
        <<"c", " ", "p", "l", "u", "s", " ", "p", "l", "u", "s">> >>],
    [subcategory |-> "c#", skills |-> <<
        <<"c", "#">>,
        <<"c", "s", "h", "a", "r", "p">>,
        <<"c", " ", "s", "h", "a", "r", "p">>,
        <<".", "n", "e", "t">>,
        <<"a", "s", "p", ".", "n", "e", "t">> >>],
    [subcategory |-> "php", skills |-> <<
        <<"p", "h", "p">>,
        <<"l", "a", "r", "a", "v", "e", "l">>,
        <<"s", "y", "m", "f", "o", "n", "y">>,
        <<"c", "o", "d", "e", "i", "g", "n", "i", "t", "e", "r">> >>],
    [subcategory |-> "ruby", skills |-> <<
        <<"r", "u", "b", "y">>,
        <<"r", "a", "i", "l", "s">>,
        <<"r", "u", "b", "y", " ", "o", "n", " ", "r", "a", "i", "l", "s">> >>],
    [subcategory |-> "go", skills |-> <<
        <<"g", "o", "l", "a", "n", "g">>,
        <<"g", "o", " ", "l", "a", "n", "g">> >>],
    [subcategory |-> "rust", skills |-> <<
        <<"r", "u", "s", "t">>,
        <<"c", "a", "r", "g", "o">> >>],
    [subcategory |-> "swift", skills |-> <<
        <<"s", "w", "i", "f", "t">>,
        <<"i", "o", "s">> >>],
    [subcategory |-> "kotlin", skills |-> <<
        <<"k", "o", "t", "l", "i", "n">>,
        <<"a", "n", "d", "r", "o", "i", "d">> >>],
    [subcategory |-> "scala", skills |-> <<
        <<"s", "c", "a", "l", "a">>,
        <<"a", "k", "k", "a">> >>],
    [subcategory |-> "typescript", skills |-> <<
        <<"t", "y", "p", "e", "s", "c", "r", "i", "p", "t">>,
        <<"t", "s">> >>],
    [subcategory |-> "r", skills |-> <<
        <<"r", " ", "p", "r", "o", "g", "r", "a", "m", "m", "i", "n", "g">>,
        <<"r", " ", "l", "a", "n", "g", "u", "a", "g", "e">> >>],
    [subcategory |-> "matlab", skills |-> <<
        <<"m", "a", "t", "l", "a", "b">>,
        <<"s", "i", "m", "u", "l", "i", "n", "k">> >>],
    [subcategory |-> "perl", skills |-> <<
        <<"p", "e", "r", "l">> >>],
    [subcategory |-> "shell", skills |-> <<
        <<"b", "a", "s", "h">>,
        <<"s", "h", "e", "l", "l", " ", "s", "c", "r", "i", "p", "t", "i", "n", "g">>,
        <<"p", "o", "w", "e", "r", "s", "h", "e", "l", "l">> >>],
    [subcategory |-> "sql", skills |-> <<
        <<"s", "q", "l">>,
        <<"m", "y", "s", "q", "l">>,
        <<"p", "o", "s", "t", "g", "r", "e", "s", "q", "l">>,
        <<"s", "q", "l", "i", "t", "e">>,
        <<"o", "r", "a", "c", "l", "e">>,
        <<"s", "q", "l", " ", "s", "e", "r", "v", "e", "r">> >>] >>],
  [category |-> "web_technologies", subcategories |-> <<
    [subcategory |-> "frontend", skills |-> <<
        <<"h", "t", "m", "l">>,
        <<"c", "s", "s">>,
        <<"s", "a", "s", "s">>,
        <<"l", "e", "s", "s">>,
        <<"b", "o", "o", "t", "s", "t", "r", "a", "p">>,
        <<"t", "a", "i", "l", "w", "i", "n", "d">>,
        <<"m", "a", "t", "e", "r", "i", "a", "l", "-", "u", "i">>,
        <<"c", "h", "a", "k", "r", "a", "-", "u", "i">> >>],
    [subcategory |-> "backend", skills |-> <<
        <<"e", "x", "p", "r", "e", "s", "s">>,
        <<"k", "o", "a">>,
        <<"f", "a", "s", "t", "i", "f", "y">>,
        <<"s", "p", "r", "i", "n", "g", " ", "b", "o", "o", "t">>,
        <<"d", "j", "a", "n", "g", "o", " ", "r", "e", "s", "t">>,
        <<"f", "l", "a", "s", "k", " ", "a", "p", "i">> >>],
    [subcategory |-> "frameworks", skills |-> <<
        <<"r", "e", "a", "c", "t">>,
        <<"a", "n", "g", "u", "l", "a", "r">>,
        <<"v", "u", "e">>,
        <<"s", "v", "e", "l", "t", "e">>,
        <<"e", "m", "b", "e", "r">>,
        <<"b", "a", "c", "k", "b", "o", "n", "e">> >>],
    [subcategory |-> "mobile", skills |-> <<
        <<"r", "e", "a", "c", "t", " ", "n", "a", "t", "i", "v", "e">>,
        <<"f", "l", "u", "t", "t", "e", "r">>,
        <<"i", "o", "n", "i", "c">>,
        <<"x", "a", "m", "a", "r", "i", "n">>,
        <<"c", "o", "r", "d", "o", "v", "a">> >>],
    [subcategory |-> "cms", skills |-> <<
        <<"w", "o", "r", "d", "p", "r", "e", "s", "s">>,
        <<"d", "r", "u", "p", "a", "l">>,
        <<"j", "o", "o", "m", "l", "a">>,
        <<"c", "o", "n", "t", "e", "n", "t", "f", "u", "l">>,
        <<"s", "t", "r", "a", "p", "i">> >>] >>],
  [category |-> "databases", subcategories |-> <<
    [subcategory |-> "relational", skills |-> <<
        <<"m", "y", "s", "q", "l">>,
        <<"p", "o", "s", "t", "g", "r", "e", "s", "q", "l">>,
        <<"s", "q", "l", "i", "t", "e">>,
        <<"o", "r", "a", "c", "l", "e">>,
        <<"s", "q", "l", " ", "s", "e", "r", "v", "e", "r">>,
        <<"m", "a", "r", "i", "a", "d", "b">> >>],
    [subcategory |-> "nosql", skills |-> <<
        <<"m", "o", "n", "g", "o", "d", "b">>,
        <<"c", "a", "s", "s", "a", "n", "d", "r", "a">>,
        <<"c", "o", "u", "c", "h", "d", "b">>,
        <<"n", "e", "o", "4", "j">>,
        <<"d", "y", "n", "a", "m", "o", "d", "b">> >>],
    [subcategory |-> "cache", skills |-> <<
        <<"r", "e", "d", "i", "s">>,
        <<"m", "e", "m", "c", "a", "c", "h", "e", "d">>,
        <<"e", "l", "a", "s", "t", "i", "c", "s", "e", "a", "r", "c", "h">> >>],
    [subcategory |-> "data_warehouse", skills |-> <<
        <<"s", "n", "o", "w", "f", "l", "a", "k", "e">>,
        <<"b", "i", "g", "q", "u", "e", "r", "y">>,
        <<"r", "e", "d", "s", "h", "i", "f", "t">>,
        <<"d", "a", "t", "a", "b", "r", "i", "c", "k", "s">> >>] >>],
  [category |-> "cloud_platforms", subcategories |-> <<
    [subcategory |-> "aws", skills |-> <<
        <<"a", "w", "s">>,
        <<"a", "m", "a", "z", "o", "n", " ", "w", "e", "b", " ", "s", "e", "r", "v", "i", "c", "e", "s">>,
        <<"e", "c", "2">>,
        <<"s", "3">>,
        <<"l", "a", "m", "b", "d", "a">>,
        <<"r", "d", "s">>,
        <<"c", "l", "o", "u", "d", "f", "o", "r", "m", "a", "t", "i", "o", "n">> >>],
    [subcategory |-> "azure", skills |-> <<
        <<"a", "z", "u", "r", "e">>,
        <<"m", "i", "c", "r", "o", "s", "o", "f", "t", " ", "a", "z", "u", "r", "e">>,
        <<"a", "z", "u", "r", "e", " ", "f", "u", "n", "c", "t", "i", "o", "n", "s">>,
        <<"a", "z", "u", "r", "e", " ", "s", "q", "l">> >>],
    [subcategory |-> "gcp", skills |-> <<
        <<"g", "c", "p">>,
        <<"g", "o", "o", "g", "l", "e", " ", "c", "l", "o", "u", "d">>,
        <<"g", "o", "o", "g", "l", "e", " ", "c", "l", "o", "u", "d", " ", "p", "l", "a", "t", "f", "o", "r", "m">>,
        <<"a", "p", "p", " ", "e", "n", "g", "i", "n", "e">>,
        <<"c", "l", "o", "u", "d", " ", "f", "u", "n", "c", "t", "i", "o", "n", "s">> >>],
    [subcategory |-> "others", skills |-> <<
        <<"h", "e", "r", "o", "k", "u">>,
        <<"d", "i", "g", "i", "t", "a", "l", "o", "c", "e", "a", "n">>,
        <<"l", "i", "n", "o", "d", "e">>,
        <<"v", "u", "l", "t", "r">>,
        <<"v", "e", "r", "c", "e", "l">>,
        <<"n", "e", "t", "l", "i", "f", "y">> >>] >>],
  [category |-> "devops_tools", subcategories |-> <<
    [subcategory |-> "containerization", skills |-> <<
        <<"d", "o", "c", "k", "e", "r">>,
        <<"k", "u", "b", "e", "r", "n", "e", "t", "e", "s">>,
        <<"p", "o", "d", "m", "a", "n">>,
        <<"c", "o", "n", "t", "a", "i", "n", "e", "r", "d">> >>],
    [subcategory |-> "ci_cd", skills |-> <<
        <<"j", "e", "n", "k", "i", "n", "s">>,
        <<"g", "i", "t", "h", "u", "b", " ", "a", "c", "t", "i", "o", "n", "s">>,
        <<"g", "i", "t", "l", "a", "b", " ", "c", "i">>,
        <<"t", "r", "a", "v", "i", "s", " ", "c", "i">>,
        <<"c", "i", "r", "c", "l", "e", "c", "i">>,
        <<"a", "z", "u", "r", "e", " ", "d", "e", "v", "o", "p", "s">> >>],
    [subcategory |-> "infrastructure", skills |-> <<
        <<"t", "e", "r", "r", "a", "f", "o", "r", "m">>,
        <<"a", "n", "s", "i", "b", "l", "e">>,
        <<"p", "u", "p", "p", "e", "t">>,
        <<"c", "h", "e", "f">>,
        <<"c", "l", "o", "u", "d", "f", "o", "r", "m", "a", "t", "i", "o", "n">> >>],
    [subcategory |-> "monitoring", skills |-> <<
        <<"p", "r", "o", "m", "e", "t", "h", "e", "u", "s">>,
        <<"g", "r", "a", "f", "a", "n", "a">>,
        <<"e", "l", "k", " ", "s", "t", "a", "c", "k">>,
        <<"s", "p", "l", "u", "n", "k">>,
        <<"d", "a", "t", "a", "d", "o", "g">>,
        <<"n", "e", "w", " ", "r", "e", "l", "i", "c">> >>],
    [subcategory |-> "version_control", skills |-> <<
        <<"g", "i", "t">>,
        <<"g", "i", "t", "h", "u", "b">>,
        <<"g", "i", "t", "l", "a", "b">>,
        <<"b", "i", "t", "b", "u", "c", "k", "e", "t">>,
        <<"s", "v", "n">> >>] >>],
  [category |-> "data_science", subcategories |-> <<
    [subcategory |-> "libraries", skills |-> <<
        <<"p", "a", "n", "d", "a", "s">>,
        <<"n", "u", "m", "p", "y">>,
        <<"s", "c", "i", "k", "i", "t", "-", "l", "e", "a", "r", "n">>,
        <<"t", "e", "n", "s", "o", "r", "f", "l", "o", "w">>,
        <<"p", "y", "t", "o", "r", "c", "h">>,
        <<"k", "e", "r", "a", "s">> >>],
    [subcategory |-> "visualization", skills |-> <<
        <<"m", "a", "t", "p", "l", "o", "t", "l", "i", "b">>,
        <<"s", "e", "a", "b", "o", "r", "n">>,
        <<"p", "l", "o", "t", "l", "y">>,
        <<"b", "o", "k", "e", "h">>,
        <<"d", "3", ".", "j", "s">> >>],
    [subcategory |-> "big_data", skills |-> <<
        <<"s", "p", "a", "r", "k">>,
        <<"h", "a", "d", "o", "o", "p">>,
        <<"k", "a", "f", "k", "a">>,
        <<"a", "i", "r", "f", "l", "o", "w">>,
        <<"d", "a", "s", "k">> >>],
    [subcategory |-> "ml_ops", skills |-> <<
        <<"m", "l", "f", "l", "o", "w">>,
        <<"k", "u", "b", "e", "f", "l", "o", "w">>,
        <<"s", "a", "g", "e", "m", "a", "k", "e", "r">>,
        <<"a", "z", "u", "r", "e", " ", "m", "l">> >>] >>],
  [category |-> "security", subcategories |-> <<
    [subcategory |-> "tools", skills |-> <<
        <<"n", "m", "a", "p">>,
        <<"w", "i", "r", "e", "s", "h", "a", "r", "k">>,
        <<"m", "e", "t", "a", "s", "p", "l", "o", "i", "t">>,
        <<"b", "u", "r", "p", " ", "s", "u", "i", "t", "e">>,
        <<"o", "w", "a", "s", "p">> >>],
    [subcategory |-> "concepts", skills |-> <<
        <<"p", "e", "n", "e", "t", "r", "a", "t", "i", "o", "n", " ", "t", "e", "s", "t", "i", "n", "g">>,
        <<"v", "u", "l", "n", "e", "r", "a", "b", "i", "l", "i", "t", "y", " ", "a", "s", "s", "e", "s", "s", "m", "e", "n", "t">>,
        <<"e", "n", "c", "r", "y", "p", "t", "i", "o", "n">>,
        <<"s", "s", "l", "/", "t", "l", "s">> >>] >>],
  [category |-> "testing", subcategories |-> <<
    [subcategory |-> "frameworks", skills |-> <<
        <<"j", "e", "s", "t">>,
        <<"m", "o", "c", "h", "a">>,
        <<"p", "y", "t", "e", "s", "t">>,
        <<"j", "u", "n", "i", "t">>,
        <<"s", "e", "l", "e", "n", "i", "u", "m">>,
        <<"c", "y", "p", "r", "e", "s", "s">> >>],
    [subcategory |-> "types", skills |-> <<
        <<"u", "n", "i", "t", " ", "t", "e", "s", "t", "i", "n", "g">>,
        <<"i", "n", "t", "e", "g", "r", "a", "t", "i", "o", "n", " ", "t", "e", "s", "t", "i", "n", "g">>,
        <<"e", "2", "e", " ", "t", "e", "s", "t", "i", "n", "g">>,
        <<"p", "e", "r", "f", "o", "r", "m", "a", "n", "c", "e", " ", "t", "e", "s", "t", "i", "n", "g">> >>] >>] >>

\* self.soft_skills (lines 162-168)
SoftSkills == <<
    <<"l", "e", "a", "d", "e", "r", "s", "h", "i", "p">>,
    <<"c", "o", "m", "m", "u", "n", "i", "c", "a", "t", "i", "o", "n">>,
    <<"t", "e", "a", "m", "w", "o", "r", "k">>,
    <<"p", "r", "o", "b", "l", "e", "m", " ", "s", "o", "l", "v", "i", "n", "g">>,
    <<"c", "r", "i", "t", "i", "c", "a", "l", " ", "t", "h", "i", "n", "k", "i", "n", "g">>,
    <<"p", "r", "o", "j", "e", "c", "t", " ", "m", "a", "n", "a", "g", "e", "m", "e", "n", "t">>,
    <<"t", "i", "m", "e", " ", "m", "a", "n", "a", "g", "e", "m", "e", "n", "t">>,
    <<"a", "d", "a", "p", "t", "a", "b", "i", "l", "i", "t", "y">>,
    <<"c", "r", "e", "a", "t", "i", "v", "i", "t", "y">>,
    <<"c", "o", "l", "l", "a", "b", "o", "r", "a", "t", "i", "o", "n">>,
    <<"a", "n", "a", "l", "y", "t", "i", "c", "a", "l", " ", "s", "k", "i", "l", "l", "s">>,
    <<"d", "e", "c", "i", "s", "i", "o", "n", " ", "m", "a", "k", "i", "n", "g">>,
    <<"c", "o", "n", "f", "l", "i", "c", "t", " ", "r", "e", "s", "o", "l", "u", "t", "i", "o", "n">>,
    <<"m", "e", "n", "t", "o", "r", "i", "n", "g">>,
    <<"c", "o", "a", "c", "h", "i", "n", "g">>,
    <<"p", "u", "b", "l", "i", "c", " ", "s", "p", "e", "a", "k", "i", "n", "g">>,
    <<"p", "r", "e", "s", "e", "n", "t", "a", "t", "i", "o", "n", " ", "s", "k", "i", "l", "l", "s">>,
    <<"n", "e", "g", "o", "t", "i", "a", "t", "i", "o", "n">>,
    <<"c", "u", "s", "t", "o", "m", "e", "r", " ", "s", "e", "r", "v", "i", "c", "e">>,
    <<"s", "t", "r", "a", "t", "e", "g", "i", "c", " ", "t", "h", "i", "n", "k", "i", "n", "g">>,
    <<"i", "n", "n", "o", "v", "a", "t", "i", "o", "n">>,
    <<"e", "m", "o", "t", "i", "o", "n", "a", "l", " ", "i", "n", "t", "e", "l", "l", "i", "g", "e", "n", "c", "e">>,
    <<"s", "t", "r", "e", "s", "s", " ", "m", "a", "n", "a", "g", "e", "m", "e", "n", "t">> >>

\* self.certifications (lines 170-174)
Certifications == <<
    <<"a", "w", "s", " ", "c", "e", "r", "t", "i", "f", "i", "e", "d">>,
    <<"a", "z", "u", "r", "e", " ", "c", "e", "r", "t", "i", "f", "i", "e", "d">>,
    <<"g", "o", "o", "g", "l", "e", " ", "c", "l", "o", "u", "d", " ", "c", "e", "r", "t", "i", "f", "i", "e", "d">>,
    <<"c", "i", "s", "s", "p">>,
    <<"c", "i", "s", "m">>,
    <<"c", "i", "s", "a">>,
    <<"p", "m", "p">>,
    <<"s", "c", "r", "u", "m", " ", "m", "a", "s", "t", "e", "r">>,
    <<"a", "g", "i", "l", "e">>,
    <<"i", "t", "i", "l">>,
    <<"c", "o", "m", "p", "t", "i", "a">>,
    <<"c", "i", "s", "c", "o", " ", "c", "e", "r", "t", "i", "f", "i", "e", "d">>,
    <<"m", "i", "c", "r", "o", "s", "o", "f", "t", " ", "c", "e", "r", "t", "i", "f", "i", "e", "d">>,
    <<"o", "r", "a", "c", "l", "e", " ", "c", "e", "r", "t", "i", "f", "i", "e", "d">>,
    <<"s", "a", "l", "e", "s", "f", "o", "r", "c", "e", " ", "c", "e", "r", "t", "i", "f", "i", "e", "d">>,
    <<"k", "u", "b", "e", "r", "n", "e", "t", "e", "s", " ", "c", "e", "r", "t", "i", "f", "i", "e", "d">> >>

\* special_cases of format_skill_name (lines 556-589)
SpecialCases == <<
    <<<<"j", "a", "v", "a", "s", "c", "r", "i", "p", "t">>, <<"J", "a", "v", "a", "S", "c", "r", "i", "p", "t">>>>,
    <<<<"t", "y", "p", "e", "s", "c", "r", "i", "p", "t">>, <<"T", "y", "p", "e", "S", "c", "r", "i", "p", "t">>>>,
    <<<<"n", "o", "d", "e", "j", "s">>, <<"N", "o", "d", "e", ".", "j", "s">>>>,
    <<<<"r", "e", "a", "c", "t", "j", "s">>, <<"R", "e", "a", "c", "t", ".", "j", "s">>>>,
    <<<<"v", "u", "e", "j", "s">>, <<"V", "u", "e", ".", "j", "s">>>>,
    <<<<"a", "n", "g", "u", "l", "a", "r", "j", "s">>, <<"A", "n", "g", "u", "l", "a", "r", ".", "j", "s">>>>,
    <<<<"m", "y", "s", "q", "l">>, <<"M", "y", "S", "Q", "L">>>>,
    <<<<"p", "o", "s", "t", "g", "r", "e", "s", "q", "l">>, <<"P", "o", "s", "t", "g", "r", "e", "S", "Q", "L">>>>,
    <<<<"m", "o", "n", "g", "o", "d", "b">>, <<"M", "o", "n", "g", "o", "D", "B">>>>,
    <<<<"a", "w", "s">>, <<"A", "W", "S">>>>,
    <<<<"g", "c", "p">>, <<"G", "o", "o", "g", "l", "e", " ", "C", "l", "o", "u", "d", " ", "P", "l", "a", "t", "f", "o", "r", "m">>>>,
    <<<<"h", "t", "m", "l">>, <<"H", "T", "M", "L">>>>,
    <<<<"c", "s", "s">>, <<"C", "S", "S">>>>,
    <<<<"s", "q", "l">>, <<"S", "Q", "L">>>>,
    <<<<"a", "p", "i">>, <<"A", "P", "I">>>>,
    <<<<"r", "e", "s", "t">>, <<"R", "E", "S", "T">>>>,
    <<<<"g", "r", "a", "p", "h", "q", "l">>, <<"G", "r", "a", "p", "h", "Q", "L">>>>,
    <<<<"d", "o", "c", "k", "e", "r">>, <<"D", "o", "c", "k", "e", "r">>>>,
    <<<<"k", "u", "b", "e", "r", "n", "e", "t", "e", "s">>, <<"K", "u", "b", "e", "r", "n", "e", "t", "e", "s">>>>,
    <<<<"j", "e", "n", "k", "i", "n", "s">>, <<"J", "e", "n", "k", "i", "n", "s">>>>,
    <<<<"g", "i", "t">>, <<"G", "i", "t">>>>,
    <<<<"g", "i", "t", "h", "u", "b">>, <<"G", "i", "t", "H", "u", "b">>>>,
    <<<<"g", "i", "t", "l", "a", "b">>, <<"G", "i", "t", "L", "a", "b">>>>,
    <<<<"j", "i", "r", "a">>, <<"J", "I", "R", "A">>>>,
    <<<<"c", "i", "/", "c", "d">>, <<"C", "I", "/", "C", "D">>>>,
    <<<<"d", "e", "v", "o", "p", "s">>, <<"D", "e", "v", "O", "p", "s">>>>,
    <<<<"m", "l", "o", "p", "s">>, <<"M", "L", "O", "p", "s">>>>,
    <<<<"t", "e", "n", "s", "o", "r", "f", "l", "o", "w">>, <<"T", "e", "n", "s", "o", "r", "F", "l", "o", "w">>>>,
    <<<<"p", "y", "t", "o", "r", "c", "h">>, <<"P", "y", "T", "o", "r", "c", "h">>>>,
    <<<<"s", "c", "i", "k", "i", "t", "-", "l", "e", "a", "r", "n">>, <<"S", "c", "i", "k", "i", "t", "-", "l", "e", "a", "r", "n">>>>,
    <<<<"p", "a", "n", "d", "a", "s">>, <<"P", "a", "n", "d", "a", "s">>>>,
    <<<<"n", "u", "m", "p", "y">>, <<"N", "u", "m", "P", "y">>>> >>

LowerCase == <<"a", "b", "c", "d", "e", "f", "g", "h", "i", "j", "k", "l", "m",
               "n", "o", "p", "q", "r", "s", "t", "u", "v", "w", "x", "y", "z">>
UpperCase == <<"A", "B", "C", "D", "E", "F", "G", "H", "I", "J", "K", "L", "M",
               "N", "O", "P", "Q", "R", "S", "T", "U", "V", "W", "X", "Y", "Z">>
DigitChars == {"0", "1", "2", "3", "4", "5", "6", "7", "8", "9"}
SpaceChars == {" ", "\n", "\t", "\r"}

LowerSet == { LowerCase[i] : i \in 1..26 }
UpperSet == { UpperCase[i] : i \in 1..26 }
LowerOf == [c \in UpperSet |-> LowerCase[CHOOSE i \in 1..26 : UpperCase[i] = c]]
UpperOf == [c \in LowerSet |-> UpperCase[CHOOSE i \in 1..26 : LowerCase[i] = c]]

IsLetter(c) == c \in LowerSet \/ c \in UpperSet
\* \w of the re module, on ASCII
IsWordChar(c) == IsLetter(c) \/ c \in DigitChars \/ c = "_"

Lower(c) == IF c \in UpperSet THEN LowerOf[c] ELSE c
Upper(c) == IF c \in LowerSet THEN UpperOf[c] ELSE c

\* str.lower()
ToLower(s) == [i \in 1..Len(s) |-> Lower(s[i])]

\* str.title(): a letter is upper-cased when it follows a non-letter
Title(s) ==
    [i \in 1..Len(s) |->
        IF i = 1 \/ ~IsLetter(s[i - 1]) THEN Upper(s[i]) ELSE Lower(s[i])]

\* str.replace(c, "") for a single character c
Remove(s, c) == SelectSeq(s, LAMBDA x : x # c)

\* str.replace(c, d) for single characters c and d
ReplaceChar(s, c, d) == [i \in 1..Len(s) |-> IF s[i] = c THEN d ELSE s[i]]

MinOf(S) == CHOOSE x \in S : \A y \in S : x <= y
MaxOf(S) == CHOOSE x \in S : \A y \in S : x >= y

\* str.strip()
StripChars(s) ==
    LET kept == { i \in 1..Len(s) : s[i] \notin SpaceChars }
    IN IF kept = {} THEN <<>> ELSE SubSeq(s, MinOf(kept), MaxOf(kept))

InSeq(x, s) == \E i \in 1..Len(s) : s[i] = x

\* d[k] = v on a dict held as a function
Put(d, k, v) == [x \in DOMAIN d \cup {k} |-> IF x = k THEN v ELSE d[x]]

EmptyDict == [x \in {} |-> 0]

IsWordAt(t, i) == i >= 1 /\ i <= Len(t) /\ IsWordChar(t[i])

\* \b between t[i-1] and t[i]
Boundary(t, i) == IsWordAt(t, i - 1) # IsWordAt(t, i)

\* \b<p>\b matches at position i of t
MatchAt(p, t, i) ==
    /\ i + Len(p) - 1 <= Len(t)
    /\ t[i] = p[1]
    /\ SubSeq(t, i, i + Len(p) - 1) = p
    /\ Boundary(t, i)
    /\ Boundary(t, i + Len(p))

\* list(re.finditer(rf'\b{re.escape(p)}\b', t)): the start positions of the
\* non-overlapping matches, scanning from position from
RECURSIVE FindAll(_, _, _)
FindAll(p, t, from) ==
    LET here == { i \in from..(Len(t) - Len(p) + 1) : MatchAt(p, t, i) }
    IN IF here = {} THEN <<>>
       ELSE <<MinOf(here)>> \o FindAll(p, t, MinOf(here) + Len(p))

\* the four search patterns of a skill, lines 464-469
Patterns(skill) ==
    << skill,
       Remove(skill, " "),
       ReplaceChar(skill, "-", " "),
       Remove(skill, ".") >>

\* for pattern in patterns: ... if matches: ... break   (lines 471-496)
\* the matches of the first pattern that has any, with that pattern
RECURSIVE FirstMatches(_, _, _)
FirstMatches(ps, t, k) ==
    IF k > Len(ps) THEN [at |-> <<>>, pattern |-> <<>>]
    ELSE LET m == FindAll(ps[k], t, 1)
         IN IF m # <<>> THEN [at |-> m, pattern |-> ps[k]]
            ELSE FirstMatches(ps, t, k + 1)

\* special_cases.get(key, default)
Lookup(table, key, default) ==
    IF \E k \in 1..Len(table) : table[k][1] = key
    THEN table[CHOOSE k \in 1..Len(table) : table[k][1] = key][2]
    ELSE default

\* format_skill_name: special_cases.get(skill.lower(), skill.title())
FormatSkillName(skill) == Lookup(SpecialCases, ToLower(skill), Title(skill))

\* variant: the cap is 100
ConfidenceCappedAt100(n) == Min(n * 10 + 50, 100)

\* confidence = min(len(matches) * 10 + 50, 95)
Confidence(n) == Min(n * 10 + 50, 95)

\* the context snippets of the first three matches, lines 483-488
Contexts(txt, m) ==
    [j \in 1..Min(Len(m.at), 3) |->
        LET start == IF m.at[j] - 1 - 50 > 0 THEN m.at[j] - 1 - 50 ELSE 0
            stop == Min(Len(txt), m.at[j] - 1 + Len(m.pattern) + 50)
        IN StripChars(SubSeq(txt, start + 1, stop))]

StartsWith(t, i, p) ==
    i >= 1 /\ i + Len(p) - 1 <= Len(t) /\ SubSeq(t, i, i + Len(p) - 1) = p

\* the position after the run of digits that starts at i
RECURSIVE DigitRunEnd(_, _)
DigitRunEnd(t, i) ==
    IF i <= Len(t) /\ t[i] \in DigitChars THEN DigitRunEnd(t, i + 1) ELSE i

\* the position after the whitespace that starts at i
RECURSIVE SkipSpaces(_, _)
SkipSpaces(t, i) ==
    IF i <= Len(t) /\ t[i] \in SpaceChars THEN SkipSpaces(t, i + 1) ELSE i

\* (\d+)\+?\s*<unit> matched at position j: the position after the unit,
\* 0 when it does not match there
YearsAt(t, j, unit) ==
    IF j >= 1 /\ j <= Len(t) /\ t[j] \in DigitChars
    THEN LET e == DigitRunEnd(t, j)
             p == IF e <= Len(t) /\ t[e] = "+" THEN e + 1 ELSE e
             q == SkipSpaces(t, p)
         IN IF StartsWith(t, q, unit) THEN q + Len(unit) ELSE 0
    ELSE 0

DigitValue == [c \in DigitChars |->
                 CHOOSE v \in 0..9 :
                    <<"0", "1", "2", "3", "4", "5", "6", "7", "8", "9">>[v + 1] = c]

\* int(s) for a string of digits
RECURSIVE IntOf(_)
IntOf(s) == IF s = <<>> THEN 0
            ELSE 10 * IntOf(SubSeq(s, 1, Len(s) - 1)) + DigitValue[s[Len(s)]]

\* . of the re module matches everything but a newline
NoNewline(t, a, b) == \A x \in a..b : t[x] # "\n"

\* re.findall(rf'{skill}.*?(\d+)\+?\s*<unit>s?', t)[0] as an int; 0: no match
SkillThenYears(t, skill, unit) ==
    LET digitsAfter(i) ==
            { j \in (i + Len(skill))..Len(t) :
                 /\ YearsAt(t, j, unit) # 0
                 /\ NoNewline(t, i + Len(skill), j - 1) }
        starts == { i \in 1..Len(t) :
                      StartsWith(t, i, skill) /\ digitsAfter(i) # {} }
    IN IF starts = {} THEN [found |-> FALSE, years |-> 0]
       ELSE LET j == MinOf(digitsAfter(MinOf(starts)))
            IN [found |-> TRUE,
                years |-> IntOf(SubSeq(t, j, DigitRunEnd(t, j) - 1))]

\* re.findall(rf'(\d+)\+?\s*<unit>s?.*?{skill}', t)[0] as an int
YearsThenSkill(t, skill, unit) ==
    LET skillAfter(e) ==
            \E k \in e..Len(t) :
                StartsWith(t, k, skill) /\ NoNewline(t, e, k - 1)
        starts == { i \in 1..Len(t) :
                      YearsAt(t, i, unit) # 0 /\ skillAfter(YearsAt(t, i, unit)) }
    IN IF starts = {} THEN [found |-> FALSE, years |-> 0]
       ELSE LET i == MinOf(starts)
            IN [found |-> TRUE,
                years |-> IntOf(SubSeq(t, i, DigitRunEnd(t, i) - 1))]

\* extract_skill_experience, lines 534-552; None is returned as 0, which
\* the caller's `if years:` treats alike
ExtractSkillExperience(txt, skill) ==
    LET t == ToLower(txt)
        year == <<"y", "e", "a", "r">>
        yr == <<"y", "r">>
        p1 == SkillThenYears(t, skill, year)
        p2 == YearsThenSkill(t, skill, year)
        p3 == SkillThenYears(t, skill, yr)
        p4 == YearsThenSkill(t, skill, yr)
    IN IF p1.found THEN p1.years
       ELSE IF p2.found THEN p2.years
       ELSE IF p3.found THEN p3.years
       ELSE IF p4.found THEN p4.years ELSE 0

NewSkillsAnalysis ==
    [technical_skills |-> EmptyDict, soft_skills |-> <<>>,
     certifications |-> <<>>, tools_and_technologies |-> <<>>,
     programming_languages |-> <<>>, frameworks_and_libraries |-> <<>>,
     databases |-> <<>>, cloud_platforms |-> <<>>,
     skill_confidence_scores |-> EmptyDict, skill_context |-> EmptyDict,
     years_of_experience |-> EmptyDict]

Indices(n) == [k \in 1..n |-> k]

HasMatch(skill, text_lower) ==
    FirstMatches(Patterns(skill), text_lower, 1).at # <<>>

\* the loop over the skills of one subcategory, lines 462-496: the indices
\* of the skills whose formatted name the loop appends to found_skills, in
\* the order of the loop.  A skill is appended when one of its patterns
\* matches and no earlier skill of the subcategory put the same formatted
\* name into found_skills.
Appended(skills, text_lower) ==
    LET matched == SelectSeq(Indices(Len(skills)),
                             LAMBDA k : HasMatch(skills[k], text_lower))
    IN SelectSeq(matched,
                 LAMBDA k : \A i \in 1..Len(matched) :
                               matched[i] < k =>
                                  FormatSkillName(skills[matched[i]])
                                     # FormatSkillName(skills[k]))

\* found_skills of a subcategory after its loop
FoundSkills(skills, text_lower) ==
    LET appended == Appended(skills, text_lower)
    IN [i \in 1..Len(appended) |-> FormatSkillName(skills[appended[i]])]

\* the body of `if formatted_skill not in found_skills:` is run once for
\* each appended skill, categories, subcategories and skills in the order
\* of the loops (lines 456-496); each run writes the dicts at the formatted
\* name.  Writes is the set of the runs, each with its place in that order.
Writes(text_lower) ==
    UNION { UNION { LET skills == SkillDatabase[c].subcategories[s].skills
                        appended == Appended(skills, text_lower)
                    IN { [c |-> c, s |-> s, k |-> appended[i],
                          skill |-> skills[appended[i]],
                          formatted_skill |->
                              FormatSkillName(skills[appended[i]])] :
                         i \in 1..Len(appended) } :
                    s \in 1..Len(SkillDatabase[c].subcategories) } :
            c \in 1..Len(SkillDatabase) }

Before(v, w) ==
    \/ v.c < w.c
    \/ v.c = w.c /\ v.s < w.s
    \/ v.c = w.c /\ v.s = w.s /\ v.k <= w.k

\* the run whose write of the dicts at name is the last one
LastWrite(writes, name) ==
    CHOOSE w \in writes :
        /\ w.formatted_skill = name
        /\ \A v \in writes : v.formatted_skill = name => Before(v, w)

\* technical_skills[category] after the loop over its subcategories (lines
\* 457-499): the dict of the subcategories that found a skill (found) with
\* the order of its keys
CategoryEntry(c, text_lower) ==
    LET subs == SkillDatabase[c].subcategories
        order == SelectSeq(Indices(Len(subs)),
                     LAMBDA s : Appended(subs[s].skills, text_lower) # <<>>)
    IN [found |->
            [name \in { subs[order[i]].subcategory : i \in 1..Len(order) } |->
                LET s == CHOOSE s \in 1..Len(subs) : subs[s].subcategory = name
                IN FoundSkills(subs[s].skills, text_lower)],
        order |-> [i \in 1..Len(order) |-> subs[order[i]].subcategory]]

\* the skills of a list that occur in the text, title-cased (lines 501-510)
ScanList(list, text_lower) ==
    LET hit == SelectSeq(list, LAMBDA s : FindAll(s, text_lower, 1) # <<>>)
    IN [i \in 1..Len(hit) |-> Title(hit[i])]

RECURSIVE ConcatSubcategories(_, _)
ConcatSubcategories(entry, k) ==
    IF k > Len(entry.order) THEN <<>>
    ELSE entry.found[entry.order[k]] \o ConcatSubcategories(entry, k + 1)

\* get_skills_by_category, lines 526-532
GetSkillsByCategory(technical_skills, category) ==
    IF category \in DOMAIN technical_skills
    THEN ConcatSubcategories(technical_skills[category], 1)
    ELSE <<>>

\* technical_skills after the loops of lines 456-499
TechnicalSkills(text_lower) ==
    [category \in { SkillDatabase[c].category : c \in 1..Len(SkillDatabase) } |->
        CategoryEntry(CHOOSE c \in 1..Len(SkillDatabase) :
                         SkillDatabase[c].category = category,
                      text_lower)]

\* what the runs of writes leave behind: the three dicts keyed by the
\* formatted name and, for each key of skill_confidence_scores,
\* len(matches) of the run that wrote it last
Written(txt, text_lower, writes) ==
    LET names == { w.formatted_skill : w \in writes }
        Matches(name) ==
            FirstMatches(Patterns(LastWrite(writes, name).skill), text_lower, 1)
        Years(name) ==
            ExtractSkillExperience(txt, LastWrite(writes, name).skill)
    IN [confidence |-> [name \in names |-> Confidence(Len(Matches(name).at))],
        context |-> [name \in names |-> Contexts(txt, Matches(name))],
        years |-> [name \in { n \in names : Years(n) # 0 } |-> Years(name)],
        counts |-> [name \in names |-> Len(Matches(name).at)]]

\* the dict extract_comprehensive_skills returns (lines 512-524), from
\* technical_skills and the dicts the loops of lines 456-499 leave.  A
\* category of technical_skills is held as the dict of its subcategories
\* (found) with the order of its keys.
Analysis(text_lower, technical_skills, written) ==
    [technical_skills |-> technical_skills,
     soft_skills |-> ScanList(SoftSkills, text_lower),
     certifications |-> ScanList(Certifications, text_lower),
     tools_and_technologies |->
         GetSkillsByCategory(technical_skills, "devops_tools"),
     programming_languages |->
         GetSkillsByCategory(technical_skills, "programming_languages"),
     frameworks_and_libraries |->
         GetSkillsByCategory(technical_skills, "web_technologies"),
     databases |-> GetSkillsByCategory(technical_skills, "databases"),
     cloud_platforms |->
         GetSkillsByCategory(technical_skills, "cloud_platforms"),
     skill_confidence_scores |-> written.confidence,
     skill_context |-> written.context,
     years_of_experience |-> written.years]

\* extract_comprehensive_skills, lines 437-524
ExtractComprehensiveSkills(txt) ==
    Analysis(ToLower(txt), TechnicalSkills(ToLower(txt)),
             Written(txt, ToLower(txt), Writes(ToLower(txt))))

\* len(matches) behind each entry of skill_confidence_scores (line 479)
MatchCounts(txt) == Written(txt, ToLower(txt), Writes(ToLower(txt))).counts

(***************************************************************************)
(* The texts the skill matcher is run on: up to MaxWords words of the      *)
(* vocabulary, separated by single spaces.                                 *)
(***************************************************************************)
MaxWords == 5

SkillVocabulary ==
    { <<"p", "y">>,
      <<"A", "W", "S">>,
      <<"r", "e", "a", "c", "t">> }

RECURSIVE JoinWords(_)
JoinWords(ws) ==
    IF ws = <<>> THEN <<>>
    ELSE IF Len(ws) = 1 THEN ws[1]
    ELSE ws[1] \o <<" ">> \o JoinWords(Tail(ws))

SkillTexts ==
    { JoinWords(ws) : ws \in UNION { [1..n -> SkillVocabulary] : n \in 0..MaxWords } }

InitSkills ==
    /\ analyzer = "advanced"
    /\ pc = "skills_call"
    /\ text = <<>>
    /\ extraction_metadata = NewMetadata
    /\ extraction_info = NewInfo
    /\ extracted_text = <<>>
    /\ attempts = <<>>
    /\ raw_words = 0
    /\ invoked = <<>>
    /\ score_in = Idle /\ score_breakdown = Idle
    /\ skill_text \in SkillTexts
    /\ skills_analysis = NewSkillsAnalysis
    /\ match_counts = EmptyDict
    /\ rec_in = Idle /\ recommendations = Idle /\ warnings = Idle
    /\ StagesIdle

SkillsCall ==
    /\ pc = "skills_call"
    /\ skills_analysis' = ExtractComprehensiveSkills(skill_text)
    /\ match_counts' = MatchCounts(skill_text)
    /\ pc' = "skills_returned"
    /\ UNCHANGED <<analyzer, text, extraction_metadata, extraction_info,
                   extracted_text, attempts, raw_words, invoked>>
    /\ UNCHANGED <<scoreVars, skill_text, recVars, stageVars, pipeVars>>

NextSkills == SkillsCall

SpecSkills == InitSkills /\ [][NextSkills]_vars

SkillsReturned == pc = "skills_returned"

\* the number of times a word occurs in a text as a whole word
Occurrences(word, txt) ==
    Cardinality({ i \in 1..Len(txt) : MatchAt(ToLower(word), ToLower(txt), i) })

\* C9: every skill recorded in skill_confidence_scores has the confidence
\* min(10 * n + 50, 95), n being the number of whole-word matches counted
\* for it (at least one; for a word of the text that is a skill, the number
\* of times the word occurs); within a result a skill with no fewer matches
\* has no smaller confidence, and no confidence exceeds 95.
C9_ConfidenceIsCappedLinear ==
    SkillsReturned =>
        LET confidence == skills_analysis.skill_confidence_scores
        IN /\ DOMAIN confidence = DOMAIN match_counts
           /\ \A name \in DOMAIN confidence :
                 /\ match_counts[name] >= 1
                 /\ confidence[name] =
                        IF 10 * match_counts[name] + 50 < 95
                        THEN 10 * match_counts[name] + 50 ELSE 95
                 /\ confidence[name] <= 95
           /\ \A name, other \in DOMAIN confidence :
                 match_counts[name] <= match_counts[other]
                    => confidence[name] <= confidence[other]
           /\ \A word \in SkillVocabulary :
                 Occurrences(word, skill_text) > 0 =>
                    /\ FormatSkillName(word) \in DOMAIN confidence
                    /\ match_counts[FormatSkillName(word)]
                          = Occurrences(word, skill_text)

\* a skill matched five times, where 10 * n + 50 is above the cap, next to a
\* result in which the cap does not bind
C9_Witness ==
    /\ SkillsReturned
    /\ \E name \in DOMAIN match_counts :
          /\ match_counts[name] = 5
          /\ skills_analysis.skill_confidence_scores[name] = 95


(***************************************************************************)
(* AdvancedResumeAnalyzer.generate_detailed_job_recommendations            *)
(*                                                                         *)
(* A recommendation carries the fields of the dict that vary with the      *)
(* arguments: category, title, match_percentage, salary_range and          *)
(* preferred_skills.  A generator returns its roles or raises (a KeyError  *)
(* on a key the skills analysis does not have).                            *)
(***************************************************************************)
\* sub in s, for strings
Contains(sub, s) ==
    \E i \in 0..(Len(s) - Len(sub)) : SubSeq(s, i + 1, i + Len(sub)) = sub

\* s[:n]
Take(s, n) == SubSeq(s, 1, Min(n, Len(s)))

RECURSIVE Flatten(_)
Flatten(lists) ==
    IF lists = <<>> THEN <<>> ELSE Head(lists) \o Flatten(Tail(lists))

Elements(s) == { s[i] : i \in 1..Len(s) }

\* the technical skills of all categories and subcategories, lower-cased
TechnicalLower(sa) ==
    UNION { UNION { { ToLower(skill) : skill \in Elements(entry.found[sub]) } :
                    sub \in DOMAIN entry.found } :
            entry \in { sa.technical_skills[c] : c \in DOMAIN sa.technical_skills } }

\* all_user_skills of calculate_match_percentage, lines 1089-1098
AllUserSkills(sa) ==
    TechnicalLower(sa)
        \cup { ToLower(skill) : skill \in Elements(sa.soft_skills) }
        \cup { ToLower(skill) : skill \in Elements(sa.certifications) }

\* calculate_match_percentage reads these keys of the skills analysis
MatchKeys == {"technical_skills", "soft_skills", "certifications"}

\* calculate_match_percentage, lines 1087-1109.  (matches / len) * 30 is a
\* float; for the lists of two and three required skills the generators
\* pass, it is exactly the integer matches * 30 / len.
CalculateMatchPercentage(sa, required_skills) ==
    LET matches == Cardinality({ i \in 1..Len(required_skills) :
                      \E user_skill \in AllUserSkills(sa) :
                         Contains(ToLower(required_skills[i]), user_skill) })
        match_bonus == IF required_skills # <<>>
                       THEN (matches * 30) \div Len(required_skills) ELSE 0
    IN Min(65 + match_bonus, 95)

\* get_salary_range, lines 1055-1085
SalaryRanges ==
    [frontend |-> [junior |-> "$55,000 - $80,000", mid |-> "$80,000 - $115,000",
                   senior |-> "$115,000 - $160,000"],
     backend |-> [junior |-> "$60,000 - $85,000", mid |-> "$85,000 - $125,000",
                  senior |-> "$125,000 - $170,000"],
     fullstack |-> [junior |-> "$65,000 - $90,000", mid |-> "$90,000 - $130,000",
                    senior |-> "$130,000 - $180,000"],
     mobile |-> [junior |-> "$60,000 - $85,000", mid |-> "$85,000 - $120,000",
                 senior |-> "$120,000 - $165,000"],
     security |-> [junior |-> "$65,000 - $90,000", mid |-> "$90,000 - $130,000",
                   senior |-> "$130,000 - $180,000"]]

GetSalaryRange(role_type, experience_level) ==
    IF role_type \in DOMAIN SalaryRanges
       /\ experience_level \in DOMAIN SalaryRanges[role_type]
    THEN SalaryRanges[role_type][experience_level]
    ELSE "$60,000 - $120,000"

WebSkills == << <<"j", "a", "v", "a", "s", "c", "r", "i", "p", "t">>, <<"r", "e", "a", "c", "t">>, <<"a", "n", "g", "u", "l", "a", "r">>, <<"v", "u", "e">>, <<"n", "o", "d", "e", ".", "j", "s">>, <<"h", "t", "m", "l">>, <<"c", "s", "s">> >>
DsSkills == << <<"p", "y", "t", "h", "o", "n">>, <<"p", "a", "n", "d", "a", "s">>, <<"n", "u", "m", "p", "y">>, <<"s", "c", "i", "k", "i", "t", "-", "l", "e", "a", "r", "n">>, <<"t", "e", "n", "s", "o", "r", "f", "l", "o", "w">>,
               <<"p", "y", "t", "o", "r", "c", "h">>, <<"r">> >>
MobileSkills == << <<"r", "e", "a", "c", "t", " ", "n", "a", "t", "i", "v", "e">>, <<"f", "l", "u", "t", "t", "e", "r">>, <<"s", "w", "i", "f", "t">>, <<"k", "o", "t", "l", "i", "n">>, <<"i", "o", "s">>, <<"a", "n", "d", "r", "o", "i", "d">> >>
DevopsSkills == << <<"d", "o", "c", "k", "e", "r">>, <<"k", "u", "b", "e", "r", "n", "e", "t", "e", "s">>, <<"j", "e", "n", "k", "i", "n", "s">>, <<"t", "e", "r", "r", "a", "f", "o", "r", "m">>, <<"a", "n", "s", "i", "b", "l", "e">>,
                   <<"a", "w", "s">>, <<"a", "z", "u", "r", "e">> >>

\* the number of indicator skills found in some technical skill
StackScore(indicators, sa) ==
    Cardinality({ i \in 1..Len(indicators) :
                    \E s \in TechnicalLower(sa) :
                       Contains(ToLower(indicators[i]), s) })

\* determine_primary_stack, lines 740-779: max() returns the first key of
\* stack_scores that has the largest score
DeterminePrimaryStack(sa) ==
    LET stacks == <<"web_fullstack", "data_science", "mobile", "devops",
                    "security">>
        stack_scores == <<StackScore(WebSkills, sa), StackScore(DsSkills, sa),
                          StackScore(MobileSkills, sa),
                          StackScore(DevopsSkills, sa), 0>>
    IN stacks[MinOf({ i \in 1..5 :
                        \A j \in 1..5 : stack_scores[j] <= stack_scores[i] })]

\* a generator that raised, and one that returned its list of roles
Raised == [raised |-> TRUE, roles |-> <<>>]
Returned(roles) == [raised |-> FALSE, roles |-> roles]

\* the generator reads keys the skills analysis does not have
Lacks(sa, keys) == \E key \in keys : key \notin DOMAIN sa

Role(category, title, match_percentage, salary_range, preferred_skills) ==
    [category |-> category, title |-> title,
     match_percentage |-> match_percentage, salary_range |-> salary_range,
     preferred_skills |-> preferred_skills]

\* the skills of technical_skills.get('web_technologies', {})
WebTechnologies(sa) == GetSkillsByCategory(sa.technical_skills, "web_technologies")

\* any('react' in skill.lower() or 'angular' in ... or 'vue' in ...)
HasFrontend(skills) ==
    \E skill \in Elements(skills) :
        \/ Contains(<<"r", "e", "a", "c", "t">>, ToLower(skill))
        \/ Contains(<<"a", "n", "g", "u", "l", "a", "r">>, ToLower(skill))
        \/ Contains(<<"v", "u", "e">>, ToLower(skill))

\* mobile_keywords of generate_mobile_roles, line 994
MobileKeywords ==
    << <<"r", "e", "a", "c", "t", " ", "n", "a", "t", "i", "v", "e">>,
       <<"f", "l", "u", "t", "t", "e", "r">>, <<"s", "w", "i", "f", "t">>,
       <<"k", "o", "t", "l", "i", "n">>, <<"i", "o", "s">>,
       <<"a", "n", "d", "r", "o", "i", "d">> >>

IsMobileSkill(skill) ==
    \E keyword \in Elements(MobileKeywords) : Contains(keyword, ToLower(skill))

\* generate_software_engineer_roles, lines 781-831
GenerateSoftwareEngineerRoles(sa, experience_level, primary_stack) ==
    IF experience_level = "junior"
    THEN IF Lacks(sa, MatchKeys \cup {"programming_languages"}) THEN Raised
         ELSE Returned(<<Role("Software Engineering",
                 "Junior Software Developer",
                 CalculateMatchPercentage(sa,
                     << <<"p", "r", "o", "g", "r", "a", "m", "m", "i", "n", "g">>, <<"v", "e", "r", "s", "i", "o", "n", " ", "c", "o", "n", "t", "r", "o", "l">> >>),
                 "$60,000 - $90,000",
                 Take(sa.programming_languages, 3))>>)
    ELSE IF experience_level = "mid"
    THEN IF Lacks(sa, MatchKeys \cup {"programming_languages", "databases"})
         THEN Raised
         ELSE Returned(<<Role("Software Engineering", "Software Engineer",
                 CalculateMatchPercentage(sa,
                     << <<"p", "r", "o", "g", "r", "a", "m", "m", "i", "n", "g">>, <<"s", "y", "s", "t", "e", "m", " ", "d", "e", "s", "i", "g", "n">>, <<"d", "a", "t", "a", "b", "a", "s", "e", "s">> >>),
                 "$90,000 - $130,000",
                 sa.programming_languages \o Take(sa.databases, 2))>>)
    ELSE IF Lacks(sa, MatchKeys \cup {"programming_languages"}) THEN Raised
         ELSE Returned(<<Role("Software Engineering",
                 "Senior Software Engineer",
                 CalculateMatchPercentage(sa,
                     << <<"a", "r", "c", "h", "i", "t", "e", "c", "t", "u", "r", "e">>, <<"l", "e", "a", "d", "e", "r", "s", "h", "i", "p">>, <<"m", "e", "n", "t", "o", "r", "i", "n", "g">> >>),
                 "$130,000 - $180,000",
                 sa.programming_languages
                     \o << <<"S", "y", "s", "t", "e", "m", " ", "D", "e", "s", "i", "g", "n">>, <<"L", "e", "a", "d", "e", "r", "s", "h", "i", "p">> >>)>>)

\* generate_data_scientist_roles, lines 833-863
GenerateDataScientistRoles(sa, experience_level, primary_stack) ==
    LET ds_skills ==
            (IF "programming_languages" \in DOMAIN sa
             THEN sa.programming_languages ELSE <<>>)
            \o GetSkillsByCategory(sa.technical_skills, "data_science")
    IN IF ~\E skill \in Elements(ds_skills) :
              \/ Contains(<<"p", "y", "t", "h", "o", "n">>, ToLower(skill))
              \/ Contains(<<"r">>, ToLower(skill))
       THEN Returned(<<>>)
       ELSE IF experience_level = "junior"
       THEN IF Lacks(sa, MatchKeys) THEN Raised
            ELSE Returned(<<Role("Data Science", "Junior Data Scientist",
                    CalculateMatchPercentage(sa,
                        << <<"p", "y", "t", "h", "o", "n">>, <<"s", "t", "a", "t", "i", "s", "t", "i", "c", "s">>, <<"s", "q", "l">> >>),
                    "$70,000 - $100,000",
                    << <<"P", "a", "n", "d", "a", "s">>, <<"N", "u", "m", "P", "y">>, <<"M", "a", "t", "p", "l", "o", "t", "l", "i", "b">>, <<"J", "u", "p", "y", "t", "e", "r">> >>)>>)
       ELSE Returned(<<>>)

\* generate_devops_roles, lines 865-894
GenerateDevopsRoles(sa, experience_level, primary_stack) ==
    LET devops_skills ==
            GetSkillsByCategory(sa.technical_skills, "devops_tools")
            \o GetSkillsByCategory(sa.technical_skills, "cloud_platforms")
    IN IF devops_skills = <<>> THEN Returned(<<>>)
       ELSE IF experience_level = "mid" \/ experience_level = "senior"
       THEN IF Lacks(sa, MatchKeys) THEN Raised
            ELSE Returned(<<Role("DevOps/Infrastructure",
                    IF experience_level = "senior"
                    THEN "Senior DevOps Engineer" ELSE "DevOps Engineer",
                    CalculateMatchPercentage(sa,
                        << <<"d", "o", "c", "k", "e", "r">>, <<"k", "u", "b", "e", "r", "n", "e", "t", "e", "s">>, <<"c", "l", "o", "u", "d">> >>),
                    IF experience_level = "mid"
                    THEN "$95,000 - $135,000" ELSE "$135,000 - $185,000",
                    Take(devops_skills, 5))>>)
       ELSE Returned(<<>>)

\* generate_frontend_roles, lines 896-927
GenerateFrontendRoles(sa, experience_level, primary_stack) ==
    IF ~HasFrontend(WebTechnologies(sa)) THEN Returned(<<>>)
    ELSE IF Lacks(sa, MatchKeys) THEN Raised
    ELSE Returned(<<Role("Frontend Development",
            IF experience_level = "senior"
            THEN "Senior Frontend Developer" ELSE "Frontend Developer",
            CalculateMatchPercentage(sa, << <<"j", "a", "v", "a", "s", "c", "r", "i", "p", "t">>, <<"r", "e", "a", "c", "t">>, <<"c", "s", "s">> >>),
            GetSalaryRange("frontend", experience_level),
            Take(WebTechnologies(sa), 5))>>)

\* generate_backend_roles, lines 929-956
GenerateBackendRoles(sa, experience_level, primary_stack) ==
    IF Lacks(sa, {"programming_languages", "databases"}) THEN Raised
    ELSE IF sa.programming_languages \o sa.databases = <<>>
    THEN Returned(<<>>)
    ELSE IF Lacks(sa, MatchKeys) THEN Raised
    ELSE Returned(<<Role("Backend Development",
            IF experience_level = "senior"
            THEN "Senior Backend Developer" ELSE "Backend Developer",
            CalculateMatchPercentage(sa,
                << <<"p", "r", "o", "g", "r", "a", "m", "m", "i", "n", "g">>, <<"d", "a", "t", "a", "b", "a", "s", "e", "s">>, <<"a", "p", "i">> >>),
            GetSalaryRange("backend", experience_level),
            Take(sa.programming_languages \o sa.databases, 5))>>)

\* technical_skills.get('web_technologies', {}).get('frameworks', [])
Frameworks(technical_skills) ==
    IF "web_technologies" \in DOMAIN technical_skills
       /\ "frameworks" \in DOMAIN technical_skills["web_technologies"].found
    THEN technical_skills["web_technologies"].found["frameworks"]
    ELSE <<>>

\* generate_fullstack_roles, lines 958-989; `a and b` reads
\* skills_analysis['databases'] only when programming_languages is not empty
GenerateFullstackRoles(sa, experience_level, primary_stack) ==
    IF Lacks(sa, {"programming_languages"}) THEN Raised
    ELSE IF sa.programming_languages = <<>> THEN Returned(<<>>)
    ELSE IF Lacks(sa, {"databases"}) THEN Raised
    ELSE IF ~(HasFrontend(WebTechnologies(sa)) /\ sa.databases # <<>>)
    THEN Returned(<<>>)
    ELSE IF Lacks(sa, MatchKeys) THEN Raised
    ELSE Returned(<<Role("Full-Stack Development",
            IF experience_level = "senior"
            THEN "Senior Full-Stack Developer" ELSE "Full-Stack Developer",
            CalculateMatchPercentage(sa,
                << <<"f", "r", "o", "n", "t", "e", "n", "d">>, <<"b", "a", "c", "k", "e", "n", "d">>, <<"d", "a", "t", "a", "b", "a", "s", "e", "s">> >>),
            GetSalaryRange("fullstack", experience_level),
            Take(sa.programming_languages
                    \o Frameworks(sa.technical_skills), 6))>>)

\* generate_mobile_roles, lines 991-1021
GenerateMobileRoles(sa, experience_level, primary_stack) ==
    IF ~\E skill \in Elements(WebTechnologies(sa)) : IsMobileSkill(skill)
    THEN Returned(<<>>)
    ELSE IF Lacks(sa, MatchKeys) THEN Raised
    ELSE Returned(<<Role("Mobile Development",
            IF experience_level = "senior"
            THEN "Senior Mobile Developer" ELSE "Mobile Developer",
            CalculateMatchPercentage(sa, << <<"m", "o", "b", "i", "l", "e">>, <<"p", "r", "o", "g", "r", "a", "m", "m", "i", "n", "g">> >>),
            GetSalaryRange("mobile", experience_level),
            Take(SelectSeq(WebTechnologies(sa), IsMobileSkill), 4))>>)

IsSecurityCert(cert) ==
    \E sec_term \in { <<"s", "e", "c", "u", "r", "i", "t", "y">>, <<"c", "i", "s", "s", "p">>, <<"c", "i", "s", "m">>, <<"c", "i", "s", "a">> } :
        Contains(sec_term, ToLower(cert))

\* generate_security_roles, lines 1023-1053
GenerateSecurityRoles(sa, experience_level, primary_stack) ==
    IF Lacks(sa, {"certifications"}) THEN Raised
    ELSE LET security_skills ==
                 GetSkillsByCategory(sa.technical_skills, "security")
             security_certs == SelectSeq(sa.certifications, IsSecurityCert)
         IN IF security_skills = <<>> /\ security_certs = <<>>
            THEN Returned(<<>>)
            ELSE IF experience_level \in {"mid", "senior"}
            THEN IF Lacks(sa, MatchKeys) THEN Raised
                 ELSE Returned(<<Role("Cybersecurity",
                         IF experience_level = "senior"
                         THEN "Senior Security Engineer"
                         ELSE "Security Engineer",
                         CalculateMatchPercentage(sa,
                             << <<"s", "e", "c", "u", "r", "i", "t", "y">>, <<"n", "e", "t", "w", "o", "r", "k", "i", "n", "g">> >>),
                         GetSalaryRange("security", experience_level),
                         security_skills \o security_certs)>>)
            ELSE Returned(<<>>)

\* variant: the frontend generator is listed ahead of the others
RoleGeneratorsFrontendFirst ==
    << "frontend_developer", "software_engineer", "data_scientist",
       "devops_engineer", "backend_developer", "fullstack_developer",
       "mobile_developer", "security_engineer" >>

\* the keys of role_generators, in the order of the dict (lines 718-727)
RoleGenerators ==
    << "software_engineer", "data_scientist", "devops_engineer",
       "frontend_developer", "backend_developer", "fullstack_developer",
       "mobile_developer", "security_engineer" >>

\* generator(skills_analysis, experience_level, primary_stack), line 731
Generate(role_type, sa, experience_level, primary_stack) ==
    CASE role_type = "software_engineer" ->
            GenerateSoftwareEngineerRoles(sa, experience_level, primary_stack)
      [] role_type = "data_scientist" ->
            GenerateDataScientistRoles(sa, experience_level, primary_stack)
      [] role_type = "devops_engineer" ->
            GenerateDevopsRoles(sa, experience_level, primary_stack)
      [] role_type = "frontend_developer" ->
            GenerateFrontendRoles(sa, experience_level, primary_stack)
      [] role_type = "backend_developer" ->
            GenerateBackendRoles(sa, experience_level, primary_stack)
      [] role_type = "fullstack_developer" ->
            GenerateFullstackRoles(sa, experience_level, primary_stack)
      [] role_type = "mobile_developer" ->
            GenerateMobileRoles(sa, experience_level, primary_stack)
      [] role_type = "security_engineer" ->
            GenerateSecurityRoles(sa, experience_level, primary_stack)

\* variant: x is put in front of the entries with its match_percentage
InsertBeforeEqual(sorted, x) ==
    LET k == Cardinality({ i \in 1..Len(sorted) :
                 sorted[i].match_percentage > x.match_percentage })
    IN SubSeq(sorted, 1, k) \o <<x>> \o SubSeq(sorted, k + 1, Len(sorted))

\* variant: x is put at the end, whatever its match_percentage
InsertAtEnd(sorted, x) == Append(sorted, x)

\* the list with x put behind the entries whose match_percentage is not
\* smaller: one step of a stable descending sort
InsertByMatch(sorted, x) ==
    LET k == Cardinality({ i \in 1..Len(sorted) :
                 sorted[i].match_percentage >= x.match_percentage })
    IN SubSeq(sorted, 1, k) \o <<x>> \o SubSeq(sorted, k + 1, Len(sorted))

\* recommendations.sort(key=lambda x: x['match_percentage'], reverse=True):
\* list.sort is stable, also with reverse=True
RECURSIVE SortByMatch(_)
SortByMatch(recs) ==
    IF recs = <<>> THEN <<>>
    ELSE InsertByMatch(SortByMatch(SubSeq(recs, 1, Len(recs) - 1)),
                       recs[Len(recs)])

\* generate_detailed_job_recommendations, lines 709-738: the returned list
\* and the role types whose generator raised and was logged
GenerateDetailedJobRecommendations(sa, experience_analysis) ==
    LET outcome == [g \in 1..Len(RoleGenerators) |->
                      Generate(RoleGenerators[g], sa, experience_analysis.level,
                               DeterminePrimaryStack(sa))]
    IN [result |->
            Take(SortByMatch(Flatten([g \in 1..Len(RoleGenerators) |->
                                        outcome[g].roles])), 8),
        warnings |->
            SelectSeq(RoleGenerators,
                      LAMBDA role_type :
                         \E g \in 1..Len(RoleGenerators) :
                            RoleGenerators[g] = role_type /\ outcome[g].raised)]

(***************************************************************************)
(* The arguments generate_detailed_job_recommendations is called with:     *)
(* skills analyses shaped like those extract_comprehensive_skills returns, *)
(* built from a pool of skills of the tables, with or without one of the   *)
(* keys the function reads, and the three experience levels.               *)
(***************************************************************************)
SkillPool ==
    << [category |-> "programming_languages", subcategory |-> "python",
        skill |-> <<"p", "y", "t", "h", "o", "n">>],
       [category |-> "web_technologies", subcategory |-> "frontend",
        skill |-> <<"c", "s", "s">>],
       [category |-> "web_technologies", subcategory |-> "frameworks",
        skill |-> <<"r", "e", "a", "c", "t">>],
       [category |-> "web_technologies", subcategory |-> "mobile",
        skill |-> <<"f", "l", "u", "t", "t", "e", "r">>],
       [category |-> "databases", subcategory |-> "relational",
        skill |-> <<"m", "y", "s", "q", "l">>],
       [category |-> "devops_tools", subcategory |-> "containerization",
        skill |-> <<"d", "o", "c", "k", "e", "r">>],
       [category |-> "cloud_platforms", subcategory |-> "aws",
        skill |-> <<"a", "w", "s">>],
       [category |-> "security", subcategory |-> "tools",
        skill |-> <<"n", "m", "a", "p">>] >>

SoftSkillPool == { <<>>, << Title(<<"l", "e", "a", "d", "e", "r", "s", "h", "i", "p">>) >> }
CertificationPool == { <<>>, << Title(<<"c", "i", "s", "s", "p">>) >> }

ReadKeys == {"technical_skills", "programming_languages", "databases",
             "soft_skills", "certifications"}
DroppedKeys == { {} } \cup { {key} : key \in ReadKeys }

\* technical_skills[category] for the chosen skills of the pool
PoolEntry(c, chosen) ==
    LET subs == SkillDatabase[c].subcategories
        Picked(s) == { i \in chosen :
                         /\ SkillPool[i].category = SkillDatabase[c].category
                         /\ SkillPool[i].subcategory = subs[s].subcategory }
        order == SelectSeq(Indices(Len(subs)), LAMBDA s : Picked(s) # {})
    IN [found |->
            [name \in { subs[order[i]].subcategory : i \in 1..Len(order) } |->
                LET s == CHOOSE s \in 1..Len(subs) : subs[s].subcategory = name
                IN << FormatSkillName(SkillPool[CHOOSE i \in Picked(s) : TRUE]
                                         .skill) >>],
        order |-> [i \in 1..Len(order) |-> subs[order[i]].subcategory]]

PoolTechnicalSkills(chosen) ==
    [category \in { SkillDatabase[c].category : c \in 1..Len(SkillDatabase) } |->
        PoolEntry(CHOOSE c \in 1..Len(SkillDatabase) :
                     SkillDatabase[c].category = category, chosen)]

\* the keys of the skills analysis the function reads (lines 512-522)
PoolAnalysis(technical_skills, soft_skills, certifications) ==
    [technical_skills |-> technical_skills,
     soft_skills |-> soft_skills,
     certifications |-> certifications,
     programming_languages |->
         GetSkillsByCategory(technical_skills, "programming_languages"),
     databases |-> GetSkillsByCategory(technical_skills, "databases")]

Without(sa, dropped) == [key \in DOMAIN sa \ dropped |-> sa[key]]

RecInputs ==
    { [skills_analysis |->
           Without(PoolAnalysis(PoolTechnicalSkills(chosen), soft, certs),
                   dropped),
       experience_analysis |-> [level |-> level]] :
      chosen \in SUBSET (1..Len(SkillPool)), soft \in SoftSkillPool,
      certs \in CertificationPool, dropped \in DroppedKeys, level \in Levels }

InitRecs ==
    /\ analyzer = "advanced"
    /\ pc = "recs_call"
    /\ text = <<>>
    /\ extraction_metadata = NewMetadata
    /\ extraction_info = NewInfo
    /\ extracted_text = <<>>
    /\ attempts = <<>>
    /\ raw_words = 0
    /\ invoked = <<>>
    /\ score_in = Idle /\ score_breakdown = Idle
    /\ skill_text = Idle /\ skills_analysis = Idle /\ match_counts = Idle
    /\ rec_in \in RecInputs
    /\ recommendations = <<>>
    /\ warnings = <<>>
    /\ StagesIdle

\* determine_primary_stack (line 715) runs outside the try block: without
\* technical_skills the call raises
RecsRaise ==
    /\ pc = "recs_call"
    /\ "technical_skills" \notin DOMAIN rec_in.skills_analysis
    /\ pc' = "recs_raised_KeyError"
    /\ UNCHANGED <<analyzer, text, extraction_metadata, extraction_info,
                   extracted_text, attempts, raw_words, invoked>>
    /\ UNCHANGED <<scoreVars, skillVars, recVars, stageVars, pipeVars>>

RecsCall ==
    /\ pc = "recs_call"
    /\ "technical_skills" \in DOMAIN rec_in.skills_analysis
    /\ recommendations' =
          GenerateDetailedJobRecommendations(rec_in.skills_analysis,
                                             rec_in.experience_analysis).result
    /\ warnings' =
          GenerateDetailedJobRecommendations(rec_in.skills_analysis,
                                             rec_in.experience_analysis).warnings
    /\ pc' = "recs_returned"
    /\ UNCHANGED <<analyzer, text, extraction_metadata, extraction_info,
                   extracted_text, attempts, raw_words, invoked>>
    /\ UNCHANGED <<scoreVars, skillVars, rec_in, stageVars, pipeVars>>

NextRecs == RecsCall \/ RecsRaise

SpecRecs == InitRecs /\ [][NextRecs]_vars

RecsReturned == pc = "recs_returned"

\* C10: the returned list has at most 8 entries and, from each entry to the
\* next, match_percentage does not go up; also in the calls in which a
\* generator raised and was skipped.
C10_AtMostEightSortedDescending ==
    RecsReturned =>
        /\ Len(recommendations) <= 8
        /\ \A i \in 1..(Len(recommendations) - 1) :
              recommendations[i].match_percentage
                 >= recommendations[i + 1].match_percentage

\* a generator raised and the others' roles came back, with different
\* match percentages
C10_Witness ==
    /\ RecsReturned
    /\ warnings # <<>>
    /\ Len(recommendations) >= 3
    /\ recommendations[1].match_percentage
          > recommendations[Len(recommendations)].match_percentage


\* the categories of the roles, in the order their generators run
CategoryOrder ==
    << "Software Engineering", "Data Science", "DevOps/Infrastructure",
       "Frontend Development", "Backend Development",
       "Full-Stack Development", "Mobile Development", "Cybersecurity" >>

RanAt(category) == CHOOSE g \in 1..Len(CategoryOrder) : CategoryOrder[g] = category

\* C11: two returned recommendations with the same match_percentage stand
\* in the order in which their generators ran.
C11_EqualMatchesKeepGenerationOrder ==
    RecsReturned =>
        \A i, j \in 1..Len(recommendations) :
            (/\ i < j
             /\ recommendations[i].match_percentage
                   = recommendations[j].match_percentage)
            => RanAt(recommendations[i].category)
                  < RanAt(recommendations[j].category)

\* two roles tie behind a role of a later generator that the sort moved up
C11_Witness ==
    /\ RecsReturned
    /\ \E i, j, k \in 1..Len(recommendations) :
          /\ i < j /\ j < k
          /\ recommendations[i].match_percentage
                > recommendations[j].match_percentage
          /\ recommendations[j].match_percentage
                = recommendations[k].match_percentage
          /\ RanAt(recommendations[i].category)
                > RanAt(recommendations[j].category)

(***************************************************************************)
(* The experience classifiers                                              *)
(*                                                                         *)
(* AdvancedResumeAnalyzer.determine_experience_level (lines 593-707),      *)
(* ResumeAnalyzer.determine_experience_level (resume_analyzer.py 236-276)  *)
(* and RealtimeResumeAnalyzer.analyze_experience_realtime                  *)
(* (realtime_resume_analyzer.py 335-407).  The regular expressions are     *)
(* matched character by character.  A match operator gives the record      *)
(* [end, group]: the position after the match that starts at i (0: no      *)
(* match there) and the digits of the group.                               *)
(***************************************************************************)
NoMatch == [end |-> 0, group |-> <<>>]

\* the position after the literal p at i; 0 when i is 0 or p is not there
Lit(t, i, p) == IF i # 0 /\ StartsWith(t, i, p) THEN i + Len(p) ELSE 0

\* p? at i
Opt(t, i, p) == IF i # 0 /\ StartsWith(t, i, p) THEN i + Len(p) ELSE i

\* \s* at i
Sp0(t, i) == IF i = 0 THEN 0 ELSE SkipSpaces(t, i)

\* \s+ at i
Sp1(t, i) == IF i # 0 /\ i <= Len(t) /\ t[i] \in SpaceChars
             THEN SkipSpaces(t, i) ELSE 0

\* (\d+) at i: the position after the run of digits
Num(t, i) == IF i # 0 /\ i <= Len(t) /\ t[i] \in DigitChars
             THEN DigitRunEnd(t, i) ELSE 0

\* the alternation (?:a|b|...) at i, the alternatives tried in order
Alt(t, i, ps) ==
    LET hit == { k \in 1..Len(ps) : Lit(t, i, ps[k]) # 0 }
    IN IF hit = {} THEN 0 ELSE Lit(t, i, ps[MinOf(hit)])

Matched(t, from, to, end) ==
    IF end = 0 THEN NoMatch ELSE [end |-> end, group |-> SubSeq(t, from, to - 1)]

Chars_year == <<"y", "e", "a", "r">>
Chars_yr == <<"y", "r">>
Chars_experience == <<"e", "x", "p", "e", "r", "i", "e", "n", "c", "e">>
Chars_exp == <<"e", "x", "p">>

\* (\d+)\+?\s*<unit>s?\s*(?:of\s*)?(?:experience|exp)
YearsOfExperience(t, i, unit) ==
    LET d == Num(t, i)
        u == Opt(t, Lit(t, Sp0(t, Opt(t, d, <<"+">>)), unit), <<"s">>)
        o == Sp0(t, u)
        f == IF Lit(t, o, <<"o", "f">>) # 0
             THEN Sp0(t, Lit(t, o, <<"o", "f">>)) ELSE o
    IN Matched(t, i, d, Alt(t, f, <<Chars_experience, Chars_exp>>))

\* experience.*?(\d+)\+?\s*years?
ExperienceThenYears(t, i) ==
    LET a == Lit(t, i, Chars_experience)
        js == { j \in a..Len(t) : a # 0 /\ YearsAt(t, j, Chars_year) # 0
                                       /\ NoNewline(t, a, j - 1) }
    IN IF js = {} THEN NoMatch
       ELSE LET j == MinOf(js)
            IN Matched(t, j, DigitRunEnd(t, j),
                       Opt(t, YearsAt(t, j, Chars_year), <<"s">>))

\* (\d+)\+?\s*years?\s*in<tail>, the tail being \s*(?:software|development|
\* programming) in the advanced analyzer and empty in the basic one
YearsIn(t, i, fields) ==
    LET d == Num(t, i)
        u == Opt(t, Lit(t, Sp0(t, Opt(t, d, <<"+">>)), Chars_year), <<"s">>)
        n == Lit(t, Sp0(t, u), <<"i", "n">>)
    IN Matched(t, i, d, IF fields = <<>> THEN n ELSE Alt(t, Sp0(t, n), fields))

\* <words, separated by \s*>\s*(\d+)\s*years?   for 'over' and 'more than'
WordsThenYears(t, i, words) ==
    LET w == IF Len(words) = 1 THEN Lit(t, i, words[1])
             ELSE Lit(t, Sp0(t, Lit(t, i, words[1])), words[2])
        s == Sp0(t, w)
        d == Num(t, s)
    IN Matched(t, s, d, Opt(t, Lit(t, Sp0(t, d), Chars_year), <<"s">>))

Fields ==
    << <<"s", "o", "f", "t", "w", "a", "r", "e">>,
       <<"d", "e", "v", "e", "l", "o", "p", "m", "e", "n", "t">>,
       <<"p", "r", "o", "g", "r", "a", "m", "m", "i", "n", "g">> >>

\* led\s+(?:a\s+)?team\s+of\s+(\d+)
LedTeamOf(t, i) ==
    LET l == Sp1(t, Lit(t, i, <<"l", "e", "d">>))
        a == IF Sp1(t, Lit(t, l, <<"a">>)) # 0
                  /\ Lit(t, Sp1(t, Lit(t, l, <<"a">>)), <<"t", "e", "a", "m">>) # 0
             THEN Sp1(t, Lit(t, l, <<"a">>)) ELSE l
        s == Sp1(t, Lit(t, Sp1(t, Lit(t, a, <<"t", "e", "a", "m">>)), <<"o", "f">>))
    IN Matched(t, s, Num(t, s), Num(t, s))

\* managed\s+(\d+)\s+(?:developers|engineers|people)
ManagedPeople(t, i) ==
    LET s == Sp1(t, Lit(t, i, <<"m", "a", "n", "a", "g", "e", "d">>))
        d == Num(t, s)
    IN Matched(t, s, d,
               Alt(t, Sp1(t, d),
                   << <<"d", "e", "v", "e", "l", "o", "p", "e", "r", "s">>,
                      <<"e", "n", "g", "i", "n", "e", "e", "r", "s">>,
                      <<"p", "e", "o", "p", "l", "e">> >>))

\* <verb>\s+(\d+) for mentored and supervised, <verb>\s+with\s+(\d+) for
\* coordinated
VerbThenNumber(t, i, verb, with) ==
    LET v == Sp1(t, Lit(t, i, verb))
        s == IF with THEN Sp1(t, Lit(t, v, <<"w", "i", "t", "h">>)) ELSE v
    IN Matched(t, s, Num(t, s), Num(t, s))

\* the patterns by name: year_patterns of the three analyzers and
\* leadership_patterns of the advanced one
MatchPattern(name, t, i) ==
    CASE name = "years_experience" -> YearsOfExperience(t, i, Chars_year)
      [] name = "yrs_experience" -> YearsOfExperience(t, i, Chars_yr)
      [] name = "experience_years" -> ExperienceThenYears(t, i)
      [] name = "years_in_field" -> YearsIn(t, i, Fields)
      [] name = "years_in" -> YearsIn(t, i, <<>>)
      [] name = "over_years" -> WordsThenYears(t, i, << <<"o", "v", "e", "r">> >>)
      [] name = "more_than_years" ->
             WordsThenYears(t, i, << <<"m", "o", "r", "e">>, <<"t", "h", "a", "n">> >>)
      [] name = "led_team_of" -> LedTeamOf(t, i)
      [] name = "managed" -> ManagedPeople(t, i)
      [] name = "mentored" ->
             VerbThenNumber(t, i, <<"m", "e", "n", "t", "o", "r", "e", "d">>, FALSE)
      [] name = "supervised" ->
             VerbThenNumber(t, i, <<"s", "u", "p", "e", "r", "v", "i", "s", "e", "d">>, FALSE)
      [] name = "coordinated_with" ->
             VerbThenNumber(t, i, <<"c", "o", "o", "r", "d", "i", "n", "a", "t", "e", "d">>, TRUE)

\* [int(match) for match in re.findall(pattern, t)]: the groups of the
\* non-overlapping matches, scanning from position from
RECURSIVE FindAllInts(_, _, _)
FindAllInts(name, t, from) ==
    LET here == { i \in from..Len(t) : MatchPattern(name, t, i).end # 0 }
    IN IF here = {} THEN <<>>
       ELSE LET m == MatchPattern(name, t, MinOf(here))
            IN <<IntOf(m.group)>> \o FindAllInts(name, t, m.end)

\* for pattern in patterns: for match in re.findall(pattern, t): append
RECURSIVE FindAllOf(_, _, _)
FindAllOf(names, t, k) ==
    IF k > Len(names) THEN <<>>
    ELSE FindAllInts(names[k], t, 1) \o FindAllOf(names, t, k + 1)

\* senior_keywords and mid_keywords of determine_experience_level, lines
\* 627-637
SeniorKeywords ==
    << <<"s", "e", "n", "i", "o", "r">>, <<"l", "e", "a", "d">>,
       <<"p", "r", "i", "n", "c", "i", "p", "a", "l">>,
       <<"a", "r", "c", "h", "i", "t", "e", "c", "t">>,
       <<"m", "a", "n", "a", "g", "e", "r">>,
       <<"d", "i", "r", "e", "c", "t", "o", "r">>,
       <<"h", "e", "a", "d", " ", "o", "f">>, <<"v", "p">>,
       <<"c", "t", "o">>, <<"c", "h", "i", "e", "f">>,
       <<"t", "e", "a", "m", " ", "l", "e", "a", "d">>,
       <<"t", "e", "c", "h", "n", "i", "c", "a", "l", " ", "l", "e", "a", "d">>,
       <<"s", "t", "a", "f", "f", " ", "e", "n", "g", "i", "n", "e", "e", "r">>,
       <<"d", "i", "s", "t", "i", "n", "g", "u", "i", "s", "h", "e", "d", " ", "e", "n", "g", "i", "n", "e", "e", "r">> >>

MidKeywords ==
    << <<"m", "i", "d", "-", "l", "e", "v", "e", "l">>,
       <<"i", "n", "t", "e", "r", "m", "e", "d", "i", "a", "t", "e">>,
       <<"s", "o", "f", "t", "w", "a", "r", "e", " ", "e", "n", "g", "i", "n", "e", "e", "r", " ", "i", "i">>,
       <<"e", "n", "g", "i", "n", "e", "e", "r", " ", "i", "i">>,
       <<"a", "s", "s", "o", "c", "i", "a", "t", "e">>,
       <<"s", "p", "e", "c", "i", "a", "l", "i", "s", "t">> >>

\* any(keyword in text_lower for keyword in keywords)
AnyKeyword(keywords, text_lower) ==
    \E k \in 1..Len(keywords) : Contains(keywords[k], text_lower)

YearPatterns ==
    << "years_experience", "yrs_experience", "experience_years",
       "years_in_field", "over_years", "more_than_years" >>

LeadershipPatterns ==
    << "led_team_of", "managed", "mentored", "supervised", "coordinated_with" >>

\* str(n) for n >= 0
RECURSIVE StrOf(_)
StrOf(n) ==
    LET digit == <<"0", "1", "2", "3", "4", "5", "6", "7", "8", "9">>[(n % 10) + 1]
    IN IF n < 10 THEN <<digit>> ELSE StrOf(n \div 10) \o <<digit>>

\* max(years_found) if years_found else 0
MaxYears(years_found) ==
    IF years_found = <<>> THEN 0 ELSE MaxOf(Elements(years_found))

RECURSIVE SumOver(_, _)
SumOver(f, S) ==
    IF S = {} THEN 0
    ELSE LET x == CHOOSE x \in S : TRUE IN f[x] + SumOver(f, S \ {x})

\* total_skills, lines 658-659
TotalSkills(technical_skills) ==
    SumOver([c \in DOMAIN technical_skills |->
                Len(ConcatSubcategories(technical_skills[c], 1))],
            DOMAIN technical_skills)

\* categories_with_skills, lines 663-664
CategoriesWithSkills(technical_skills) ==
    Cardinality({ c \in DOMAIN technical_skills :
                    \E sub \in DOMAIN technical_skills[c].found :
                       technical_skills[c].found[sub] # <<>> })

\* the decision logic of lines 673-686 with the mid test tried first
LevelMidFirst(max_years, text_lower) ==
    IF max_years >= 3 \/ AnyKeyword(MidKeywords, text_lower)
    THEN "mid"
    ELSE IF max_years >= 8 \/ AnyKeyword(SeniorKeywords, text_lower)
    THEN "senior"
    ELSE "junior"

\* the level the decision logic of lines 673-686 sets
LevelOf(max_years, text_lower) ==
    IF max_years >= 8 \/ AnyKeyword(SeniorKeywords, text_lower)
    THEN "senior"
    ELSE IF max_years >= 3 \/ AnyKeyword(MidKeywords, text_lower)
    THEN "mid"
    ELSE "junior"

\* the first indicator, lines 676, 681 and 686
LevelIndicator(level, max_years) ==
    IF level = "junior" THEN <<"L", "i", "m", "i", "t", "e", "d", " ", "e", "x", "p", "e", "r", "i", "e", "n", "c", "e", " ", "i", "n", "d", "i", "c", "a", "t", "o", "r", "s">>
    ELSE IF max_years # 0 THEN <<"Y", "e", "a", "r", "s", ":", " ">> \o StrOf(max_years)
    ELSE IF level = "senior" THEN <<"S", "e", "n", "i", "o", "r", " ", "k", "e", "y", "w", "o", "r", "d", "s", " ", "f", "o", "u", "n", "d">>
    ELSE <<"M", "i", "d", "-", "l", "e", "v", "e", "l", " ", "k", "e", "y", "w", "o", "r", "d", "s", " ", "f", "o", "u", "n", "d">>

\* the dict built from the values the function has computed, lines 595-707
ExperienceAnalysis(level, years_found, teams, total_skills, breadth_score) ==
    LET leadership_indicators ==
            [k \in 1..Len(teams) |-> <<"L", "e", "d", " ", "t", "e", "a", "m", " ", "o", "f", " ">> \o StrOf(teams[k])]
    IN [level |-> level,
        confidence |-> ConfidenceOf(level, total_skills, Len(teams),
                                    breadth_score),
        indicators |->
            <<LevelIndicator(level, MaxYears(years_found))>>
            \o (IF total_skills > 15
                THEN <<<<"H", "i", "g", "h", " ", "t", "e", "c", "h", "n", "i", "c", "a", "l", " ", "s", "k", "i", "l", "l", " ", "c", "o", "u", "n", "t", ":", " ">> \o StrOf(total_skills)>>
                ELSE <<>>)
            \o leadership_indicators
            \o (IF breadth_score >= 4
                THEN <<<<"B", "r", "o", "a", "d", " ", "t", "e", "c", "h", "n", "i", "c", "a", "l", " ", "e", "x", "p", "e", "r", "t", "i", "s", "e", ":", " ">>
                         \o StrOf(breadth_score)
                         \o <<" ", "c", "a", "t", "e", "g", "o", "r", "i", "e", "s">>>>
                ELSE <<>>),
        years_found |-> years_found,
        leadership_indicators |-> leadership_indicators,
        technical_depth |-> total_skills,
        breadth_score |-> breadth_score]

\* AdvancedResumeAnalyzer.determine_experience_level, lines 593-707
DetermineExperienceLevel(txt, sa) ==
    ExperienceAnalysis(
        LevelOf(MaxYears(FindAllOf(YearPatterns, ToLower(txt), 1)), ToLower(txt)),
        FindAllOf(YearPatterns, ToLower(txt), 1),
        FindAllOf(LeadershipPatterns, ToLower(txt), 1),
        TotalSkills(sa.technical_skills),
        CategoriesWithSkills(sa.technical_skills))

\* senior_keywords, mid_keywords and year_patterns of
\* ResumeAnalyzer.determine_experience_level, resume_analyzer.py 241-257
BasicSeniorKeywords ==
    << <<"s", "e", "n", "i", "o", "r">>, <<"l", "e", "a", "d">>,
       <<"p", "r", "i", "n", "c", "i", "p", "a", "l">>,
       <<"a", "r", "c", "h", "i", "t", "e", "c", "t">>,
       <<"m", "a", "n", "a", "g", "e", "r">>,
       <<"d", "i", "r", "e", "c", "t", "o", "r">>,
       <<"h", "e", "a", "d", " ", "o", "f">>, <<"v", "p">>,
       <<"c", "t", "o">>, <<"c", "h", "i", "e", "f">>,
       <<"1", "0", "+", " ", "y", "e", "a", "r", "s">>,
       <<"8", "+", " ", "y", "e", "a", "r", "s">>,
       <<"7", "+", " ", "y", "e", "a", "r", "s">> >>

BasicMidKeywords ==
    << <<"m", "i", "d", "-", "l", "e", "v", "e", "l">>,
       <<"i", "n", "t", "e", "r", "m", "e", "d", "i", "a", "t", "e">>,
       <<"3", "-", "6", " ", "y", "e", "a", "r", "s">>,
       <<"4", "-", "7", " ", "y", "e", "a", "r", "s">>,
       <<"5", "+", " ", "y", "e", "a", "r", "s">> >>

BasicYearPatterns ==
    << "years_experience", "yrs_experience", "experience_years", "years_in" >>

\* ResumeAnalyzer.determine_experience_level, resume_analyzer.py 236-276
BasicDetermineExperienceLevel(txt) ==
    LET max_years == MaxYears(FindAllOf(BasicYearPatterns, ToLower(txt), 1))
    IN IF AnyKeyword(BasicSeniorKeywords, ToLower(txt)) \/ max_years >= 7
       THEN "senior"
       ELSE IF AnyKeyword(BasicMidKeywords, ToLower(txt))
                 \/ (3 <= max_years /\ max_years < 7)
       THEN "mid"
       ELSE "junior"

\* experience_indicators of RealtimeResumeAnalyzer.__init__,
\* realtime_resume_analyzer.py 134-150: each pattern \bw1\s+w2...\b with
\* its words
ExperienceIndicators ==
    [senior |-> <<
       [pattern |-> <<"\\", "b", "s", "e", "n", "i", "o", "r", "\\", "b">>,
        words |-> << <<"s", "e", "n", "i", "o", "r">> >>],
       [pattern |-> <<"\\", "b", "l", "e", "a", "d", "\\", "b">>,
        words |-> << <<"l", "e", "a", "d">> >>],
       [pattern |-> <<"\\", "b", "p", "r", "i", "n", "c", "i", "p", "a", "l", "\\", "b">>,
        words |-> << <<"p", "r", "i", "n", "c", "i", "p", "a", "l">> >>],
       [pattern |-> <<"\\", "b", "a", "r", "c", "h", "i", "t", "e", "c", "t", "\\", "b">>,
        words |-> << <<"a", "r", "c", "h", "i", "t", "e", "c", "t">> >>],
       [pattern |-> <<"\\", "b", "m", "a", "n", "a", "g", "e", "r", "\\", "b">>,
        words |-> << <<"m", "a", "n", "a", "g", "e", "r">> >>],
       [pattern |-> <<"\\", "b", "d", "i", "r", "e", "c", "t", "o", "r", "\\", "b">>,
        words |-> << <<"d", "i", "r", "e", "c", "t", "o", "r">> >>],
       [pattern |-> <<"\\", "b", "h", "e", "a", "d", "\\", "s", "+", "o", "f", "\\", "b">>,
        words |-> << <<"h", "e", "a", "d">>, <<"o", "f">> >>],
       [pattern |-> <<"\\", "b", "c", "t", "o", "\\", "b">>,
        words |-> << <<"c", "t", "o">> >>],
       [pattern |-> <<"\\", "b", "t", "e", "a", "m", "\\", "s", "+", "l", "e", "a", "d", "\\", "b">>,
        words |-> << <<"t", "e", "a", "m">>, <<"l", "e", "a", "d">> >>],
       [pattern |-> <<"\\", "b", "t", "e", "c", "h", "n", "i", "c", "a", "l", "\\", "s", "+", "l", "e", "a", "d", "\\", "b">>,
        words |-> << <<"t", "e", "c", "h", "n", "i", "c", "a", "l">>, <<"l", "e", "a", "d">> >>],
       [pattern |-> <<"\\", "b", "s", "t", "a", "f", "f", "\\", "s", "+", "e", "n", "g", "i", "n", "e", "e", "r", "\\", "b">>,
        words |-> << <<"s", "t", "a", "f", "f">>, <<"e", "n", "g", "i", "n", "e", "e", "r">> >>] >>,
     mid |-> <<
       [pattern |-> <<"\\", "b", "m", "i", "d", "-", "l", "e", "v", "e", "l", "\\", "b">>,
        words |-> << <<"m", "i", "d", "-", "l", "e", "v", "e", "l">> >>],
       [pattern |-> <<"\\", "b", "i", "n", "t", "e", "r", "m", "e", "d", "i", "a", "t", "e", "\\", "b">>,
        words |-> << <<"i", "n", "t", "e", "r", "m", "e", "d", "i", "a", "t", "e">> >>],
       [pattern |-> <<"\\", "b", "s", "o", "f", "t", "w", "a", "r", "e", "\\", "s", "+", "e", "n", "g", "i", "n", "e", "e", "r", "\\", "s", "+", "i", "i", "\\", "b">>,
        words |-> << <<"s", "o", "f", "t", "w", "a", "r", "e">>, <<"e", "n", "g", "i", "n", "e", "e", "r">>, <<"i", "i">> >>],
       [pattern |-> <<"\\", "b", "a", "s", "s", "o", "c", "i", "a", "t", "e", "\\", "b">>,
        words |-> << <<"a", "s", "s", "o", "c", "i", "a", "t", "e">> >>],
       [pattern |-> <<"\\", "b", "s", "p", "e", "c", "i", "a", "l", "i", "s", "t", "\\", "b">>,
        words |-> << <<"s", "p", "e", "c", "i", "a", "l", "i", "s", "t">> >>] >>,
     years |-> << "years_experience", "yrs_experience", "over_years",
                  "more_than_years" >>]

\* the position after w1\s+w2\s+... at i; 0 when it does not match there
RECURSIVE WordsEnd(_, _, _, _)
WordsEnd(words, t, i, k) ==
    IF k = Len(words) THEN Lit(t, i, words[k])
    ELSE WordsEnd(words, t, Sp1(t, Lit(t, i, words[k])), k + 1)

\* re.search(r'\b<words>\b', t)
SearchWords(words, t) ==
    \E i \in 1..Len(t) :
        /\ WordsEnd(words, t, i, 1) # 0
        /\ Boundary(t, i)
        /\ Boundary(t, WordsEnd(words, t, i, 1))

\* the patterns of a list that re.search finds in the text, in order
Found(indicators, text_lower) ==
    SelectSeq(indicators, LAMBDA p : SearchWords(p.words, text_lower))

\* leadership_score, realtime_resume_analyzer.py 375-385: the number of
\* led\s+(?:a\s+)?team, managed\s+\d+, mentored, supervised, coordinated
\* that re.search finds
LeadershipScore(t) ==
    Cardinality(
      { p \in 1..5 :
          \E i \in 1..Len(t) :
             CASE p = 1 ->
                    LET l == Sp1(t, Lit(t, i, <<"l", "e", "d">>))
                    IN \/ Lit(t, l, <<"t", "e", "a", "m">>) # 0
                       \/ Lit(t, Sp1(t, Lit(t, l, <<"a">>)), <<"t", "e", "a", "m">>) # 0
               [] p = 2 -> Num(t, Sp1(t, Lit(t, i, <<"m", "a", "n", "a", "g", "e", "d">>))) # 0
               [] p = 3 -> Lit(t, i, <<"m", "e", "n", "t", "o", "r", "e", "d">>) # 0
               [] p = 4 -> Lit(t, i, <<"s", "u", "p", "e", "r", "v", "i", "s", "e", "d">>) # 0
               [] p = 5 -> Lit(t, i, <<"c", "o", "o", "r", "d", "i", "n", "a", "t", "e", "d">>) # 0 })

\* the years kept by the range test of line 354
ReasonableYears(years) == SelectSeq(years, LAMBDA y : 0 < y /\ y <= 50)

\* the level and base confidence of lines 390-398
RealtimeLevel(max_years, senior_count, mid_count, skills_count) ==
    IF max_years >= 8 \/ senior_count >= 2
    THEN [level |-> "senior", confidence |-> 85]
    ELSE IF max_years >= 3 \/ mid_count >= 1 \/ skills_count >= 10
    THEN [level |-> "mid", confidence |-> 75]
    ELSE [level |-> "junior", confidence |-> 65]

\* the dict analyze_experience_realtime returns, from the values it has
\* computed
RealtimeAnalysis(years_found, senior, mid, leadership_score, skills_count) ==
    LET decided == RealtimeLevel(MaxYears(years_found), Len(senior), Len(mid),
                                 skills_count)
    IN [level |-> decided.level,
        confidence |->
            Min(decided.confidence
                  + (IF leadership_score > 0 THEN 10 ELSE 0)
                  + (IF skills_count > 15 THEN 5 ELSE 0), 95),
        years_found |-> years_found,
        indicators |->
            [k \in 1..Len(senior) |-> <<"S", "e", "n", "i", "o", "r", " ", "k", "e", "y", "w", "o", "r", "d", ":", " ">> \o senior[k].pattern]
            \o [k \in 1..Len(mid) |-> <<"M", "i", "d", "-", "l", "e", "v", "e", "l", " ", "k", "e", "y", "w", "o", "r", "d", ":", " ">> \o mid[k].pattern],
        leadership_score |-> leadership_score,
        technical_depth |-> skills_count]

\* RealtimeResumeAnalyzer.analyze_experience_realtime,
\* realtime_resume_analyzer.py 336-409
AnalyzeExperienceRealtime(txt, skills_count) ==
    RealtimeAnalysis(
        ReasonableYears(FindAllOf(ExperienceIndicators.years, ToLower(txt), 1)),
        Found(ExperienceIndicators.senior, ToLower(txt)),
        Found(ExperienceIndicators.mid, ToLower(txt)),
        LeadershipScore(ToLower(txt)),
        skills_count)

(***************************************************************************)
(* SpecLevel: one call of an experience classifier.  The text is a         *)
(* sequence of at most MaxPhrases phrases separated by single spaces; the  *)
(* skills analysis is what extract_comprehensive_skills returns for a list *)
(* of skill names, so that the skill count lies on both sides of 8 and of  *)
(* 15 and the number of populated categories on both sides of 4.  The      *)
(* real-time analyzer is given the same skill count.                       *)
(***************************************************************************)
MaxPhrases == 2

Phrases ==
    << <<"S", "e", "n", "i", "o", "r">>,
       <<"a", "r", "c", "h", "i", "t", "e", "c", "t">>,
       <<"a", "s", "s", "o", "c", "i", "a", "t", "e">>,
       <<"l", "e", "a", "d", "e", "r", "s", "h", "i", "p">>,
       <<"8", "+", " ", "y", "e", "a", "r", "s", " ", "o", "f", " ", "e", "x", "p", "e", "r", "i", "e", "n", "c", "e">>,
       <<"3", " ", "y", "r", "s", " ", "e", "x", "p">>,
       <<"o", "v", "e", "r", " ", "2", " ", "y", "e", "a", "r", "s">>,
       <<"l", "e", "d", " ", "a", " ", "t", "e", "a", "m", " ", "o", "f", " ", "5">> >>

\* sixteen skills of the category programming_languages
LanguageList ==
    << <<"p", "y", "t", "h", "o", "n">>, <<"j", "a", "v", "a">>,
       <<"r", "u", "s", "t">>, <<"k", "o", "t", "l", "i", "n">>,
       <<"s", "w", "i", "f", "t">>, <<"r", "u", "b", "y">>,
       <<"p", "h", "p">>, <<"s", "c", "a", "l", "a">>,
       <<"p", "e", "r", "l">>,
       <<"t", "y", "p", "e", "s", "c", "r", "i", "p", "t">>,
       <<"m", "a", "t", "l", "a", "b">>, <<"d", "j", "a", "n", "g", "o">>,
       <<"f", "l", "a", "s", "k">>, <<"s", "p", "r", "i", "n", "g">>,
       <<"r", "a", "i", "l", "s">>, <<"l", "a", "r", "a", "v", "e", "l">> >>

\* seventeen skill names of six categories
BroadList ==
    << <<"p", "y", "t", "h", "o", "n">>, <<"j", "a", "v", "a">>,
       <<"g", "o">>, <<"d", "o", "c", "k", "e", "r">>, <<"a", "w", "s">>,
       <<"m", "y", "s", "q", "l">>, <<"g", "i", "t">>,
       <<"l", "i", "n", "u", "x">>, <<"n", "m", "a", "p">>,
       <<"c", "s", "s">>, <<"r", "u", "s", "t">>,
       <<"r", "e", "d", "i", "s">>, <<"a", "z", "u", "r", "e">>,
       <<"j", "e", "n", "k", "i", "n", "s">>,
       <<"k", "o", "t", "l", "i", "n">>, <<"s", "w", "i", "f", "t">>,
       <<"r", "u", "b", "y">> >>

SkillLists ==
    { Take(LanguageList, n) : n \in {0, 8, 9, 15, 16} }
        \cup { Take(BroadList, n) : n \in {9, 10, 16, 17} }

ExperienceTexts ==
    { JoinWords([k \in 1..Len(ps) |-> Phrases[ps[k]]]) :
         ps \in UNION { [1..n -> 1..Len(Phrases)] : n \in 0..MaxPhrases } }

ExperienceInputs ==
    { [text |-> txt, skills_analysis |-> sa] :
         txt \in ExperienceTexts,
         sa \in { ExtractComprehensiveSkills(JoinWords(l)) : l \in SkillLists } }

InitLevel ==
    /\ analyzer \in Analyzers
    /\ pc = "level_call"
    /\ text = <<>>
    /\ extraction_metadata = NewMetadata
    /\ extraction_info = NewInfo
    /\ extracted_text = <<>>
    /\ attempts = <<>>
    /\ raw_words = 0
    /\ invoked = <<>>
    /\ score_in = Idle /\ score_breakdown = Idle
    /\ skill_text = Idle /\ skills_analysis = Idle /\ match_counts = Idle
    /\ rec_in = Idle /\ recommendations = Idle /\ warnings = Idle
    /\ exp_in \in ExperienceInputs
    /\ exp_analysis = Idle
    /\ sug_in = Idle /\ suggestions = Idle
    /\ PipelineIdle

LevelFrame ==
    UNCHANGED <<analyzer, text, extraction_metadata, extraction_info,
                extracted_text, attempts, raw_words, invoked, scoreVars,
                skillVars, recVars, exp_in, sug_in, suggestions, pipeVars>>

\* experience_analysis = self.determine_experience_level(cleaned_text,
\* skills_analysis), advanced_resume_analyzer.py 1567
AdvancedLevelCall ==
    /\ pc = "level_call" /\ analyzer = "advanced"
    /\ exp_analysis' = DetermineExperienceLevel(exp_in.text, exp_in.skills_analysis)
    /\ pc' = "level_returned"
    /\ LevelFrame

\* experience_level = self.determine_experience_level(cleaned_text),
\* resume_analyzer.py 529
BasicLevelCall ==
    /\ pc = "level_call" /\ analyzer = "basic"
    /\ exp_analysis' = [level |-> BasicDetermineExperienceLevel(exp_in.text)]
    /\ pc' = "level_returned"
    /\ LevelFrame

\* experience_analysis = self.analyze_experience_realtime(cleaned_text,
\* skills_analysis['total_count']), realtime_resume_analyzer.py 692
RealtimeLevelCall ==
    /\ pc = "level_call" /\ analyzer = "realtime"
    /\ exp_analysis' =
          AnalyzeExperienceRealtime(exp_in.text,
              TotalSkills(exp_in.skills_analysis.technical_skills))
    /\ pc' = "level_returned"
    /\ LevelFrame

NextLevel == AdvancedLevelCall \/ BasicLevelCall \/ RealtimeLevelCall

SpecLevel == InitLevel /\ [][NextLevel]_vars

LevelReturned == pc = "level_returned"
AdvancedLevelReturned == LevelReturned /\ analyzer = "advanced"

\* C12: determine_experience_level of the advanced analyzer applies the
\* priority rule, first match wins: the level is senior iff the largest
\* of the extracted years is at least 8 or a senior keyword occurs in the
\* text; otherwise mid iff the largest is at least 3 or a mid keyword occurs;
\* otherwise junior.  The level is a function of the years and the keywords
\* alone, whatever the skill count and the leadership mentions.
C12_LevelByPriorityRule ==
    AdvancedLevelReturned =>
        LET t == ToLower(exp_in.text)
            max_years == MaxYears(exp_analysis.years_found)
            senior == max_years >= 8
                        \/ \E k \in 1..Len(SeniorKeywords) : Contains(SeniorKeywords[k], t)
            mid == max_years >= 3
                     \/ \E k \in 1..Len(MidKeywords) : Contains(MidKeywords[k], t)
        IN exp_analysis.level =
              IF senior THEN "senior" ELSE IF mid THEN "mid" ELSE "junior"

\* a text with a senior and a mid keyword and no years, without any skill:
\* the senior test wins
C12_Witness ==
    /\ AdvancedLevelReturned
    /\ Contains(<<"s", "e", "n", "i", "o", "r">>, ToLower(exp_in.text))
    /\ Contains(<<"a", "s", "s", "o", "c", "i", "a", "t", "e">>, ToLower(exp_in.text))
    /\ exp_analysis.years_found = <<>>
    /\ exp_analysis.technical_depth = 0
    /\ exp_analysis.level = "senior"

\* C13: the confidence of determine_experience_level is
\* min(base + s + l + b, 95) with base 70, 60, 50 for senior, mid, junior,
\* s = 20 for more than 15 technical skills, else 10 for more than 8, else
\* 0, l = 15 iff there is a leadership mention and b = 10 iff at least 4
\* categories hold a skill; it lies between 50 and 95.
C13_ConfidenceIsCappedSum ==
    AdvancedLevelReturned =>
        LET n == TotalSkills(exp_in.skills_analysis.technical_skills)
            base == CASE exp_analysis.level = "senior" -> 70
                      [] exp_analysis.level = "mid" -> 60
                      [] exp_analysis.level = "junior" -> 50
            s == IF n > 15 THEN 20 ELSE IF n > 8 THEN 10 ELSE 0
            l == IF exp_analysis.leadership_indicators # <<>> THEN 15 ELSE 0
            b == IF CategoriesWithSkills(exp_in.skills_analysis.technical_skills) >= 4
                 THEN 10 ELSE 0
        IN /\ exp_analysis.confidence = Min(base + s + l + b, 95)
           /\ exp_analysis.confidence \in 50..95

\* a senior text with a leadership mention, 16 skills and six categories:
\* the factors sum to 115 and the confidence is 95
C13_Witness ==
    /\ AdvancedLevelReturned
    /\ exp_analysis.level = "senior"
    /\ exp_analysis.technical_depth = 16
    /\ exp_analysis.breadth_score >= 4
    /\ exp_analysis.leadership_indicators = <<<<"L", "e", "d", " ", "t", "e", "a", "m", " ", "o", "f", " ", "5">>>>
    /\ exp_analysis.confidence = 95

\* C14: in each of the three analyzers a text that contains the senior
\* keyword 'senior' is classified senior, for every skill count and
\* whatever years it states.
C14_SingleSeniorKeywordIsSenior ==
    (LevelReturned /\ Contains(<<"s", "e", "n", "i", "o", "r">>, ToLower(exp_in.text)))
        => exp_analysis.level = "senior"

(***************************************************************************)
(* generate_improvement_suggestions (lines 1111-1205) and the text tests   *)
(* it shares with calculate_overall_score.                                 *)
(***************************************************************************)
\* re.search(r'(a|b|...)', t): one of the words occurs in t
SearchAny(words, t) == \E k \in 1..Len(words) : Contains(words[k], t)

\* len(text.split())
WordCount(t) ==
    Cardinality({ i \in 1..Len(t) :
                    t[i] \notin SpaceChars /\ (i = 1 \/ t[i - 1] \in SpaceChars) })

\* analyze_resume_structure, lines 1207-1251
AnalyzeResumeStructure(txt) ==
    LET t == ToLower(txt)
        has_contact_info == SearchAny(<< <<"e", "m", "a", "i", "l">>, <<"p", "h", "o", "n", "e">>,
                  <<"l", "i", "n", "k", "e", "d", "i", "n">>,
                  <<"g", "i", "t", "h", "u", "b">> >>, t)
        has_summary == SearchAny(<< <<"s", "u", "m", "m", "a", "r", "y">>,
                  <<"o", "b", "j", "e", "c", "t", "i", "v", "e">>,
                  <<"p", "r", "o", "f", "i", "l", "e">>, <<"a", "b", "o", "u", "t">> >>, t)
        has_experience == SearchAny(<< <<"e", "x", "p", "e", "r", "i", "e", "n", "c", "e">>,
                  <<"e", "m", "p", "l", "o", "y", "m", "e", "n", "t">>,
                  <<"w", "o", "r", "k", " ", "h", "i", "s", "t", "o", "r", "y">> >>, t)
        has_education == SearchAny(<< <<"e", "d", "u", "c", "a", "t", "i", "o", "n">>,
                  <<"d", "e", "g", "r", "e", "e">>,
                  <<"u", "n", "i", "v", "e", "r", "s", "i", "t", "y">>,
                  <<"c", "o", "l", "l", "e", "g", "e">> >>, t)
        has_skills_section == SearchAny(<< <<"s", "k", "i", "l", "l", "s">>,
                  <<"t", "e", "c", "h", "n", "o", "l", "o", "g", "i", "e", "s">>,
                  <<"c", "o", "m", "p", "e", "t", "e", "n", "c", "i", "e", "s">> >>, t)
        count(b) == IF b THEN 1 ELSE 0
    IN [has_contact_info |-> has_contact_info,
        has_summary |-> has_summary,
        has_experience |-> has_experience,
        has_education |-> has_education,
        has_skills_section |-> has_skills_section,
        section_count |-> count(has_contact_info) + count(has_summary)
                            + count(has_experience) + count(has_education)
                            + count(has_skills_section),
        estimated_length |-> EstimatedLength(WordCount(txt))]

\* re.search(r'<word>.*?<mark>\d+', t), the mark being empty or \$
WordThenNumber(word, mark, t) ==
    \E i \in 1..Len(t) :
        /\ StartsWith(t, i, word)
        /\ \E j \in (i + Len(word))..Len(t) :
              /\ Num(t, Lit(t, j, mark)) # 0
              /\ NoNewline(t, i + Len(word), j - 1)

\* re.search(r'led.*?team.*?\d+', t)
LedTeamNumber(t) ==
    \E i \in 1..Len(t) :
        /\ StartsWith(t, i, <<"l", "e", "d">>)
        /\ \E j \in (i + 3)..Len(t) :
              /\ StartsWith(t, j, <<"t", "e", "a", "m">>)
              /\ NoNewline(t, i + 3, j - 1)
              /\ \E k \in (j + 4)..Len(t) :
                    t[k] \in DigitChars /\ NoNewline(t, j + 4, k - 1)

\* has_quantifiable_achievements, lines 1253-1271
HasQuantifiableAchievements(txt) ==
    LET t == ToLower(txt)
    IN \/ \E i \in 1..Len(t) : Lit(t, Num(t, i), <<"%">>) # 0
       \/ \E w \in { <<"i", "n", "c", "r", "e", "a", "s", "e", "d">>,
                     <<"i", "m", "p", "r", "o", "v", "e", "d">>,
                     <<"r", "e", "d", "u", "c", "e", "d">>,
                     <<"s", "u", "p", "e", "r", "v", "i", "s", "e", "d">> } : WordThenNumber(w, <<>>, t)
       \/ \E w \in { <<"s", "a", "v", "e", "d">>,
                     <<"g", "e", "n", "e", "r", "a", "t", "e", "d">>,
                     <<"m", "a", "n", "a", "g", "e", "d">> } : WordThenNumber(w, <<"$">>, t)
       \/ LedTeamNumber(t)

\* re.search(r'<first>.*?<second>', t)
WordThenWord(first, second, t) ==
    \E i \in 1..Len(t) :
        /\ StartsWith(t, i, first)
        /\ \E j \in (i + Len(first))..Len(t) :
              StartsWith(t, j, second) /\ NoNewline(t, i + Len(first), j - 1)

\* has_portfolio_links, lines 1273-1288
HasPortfolioLinks(txt) ==
    LET t == ToLower(txt)
    IN \/ SearchAny(<< <<"g", "i", "t", "h", "u", "b", ".", "c", "o", "m">>,
                  <<"g", "i", "t", "l", "a", "b", ".", "c", "o", "m">>,
                  <<"p", "o", "r", "t", "f", "o", "l", "i", "o">> >>, t)
       \/ WordThenWord(<<"p", "r", "o", "j", "e", "c", "t">>, <<"l", "i", "n", "k">>, t)
       \/ WordThenWord(<<"d", "e", "m", "o">>, <<"l", "i", "n", "k">>, t)
       \/ WordThenWord(<<"l", "i", "v", "e">>, <<"s", "i", "t", "e">>, t)

\* the eight suggestions of lines 1119-1203, in the order of the source
SuggestionChecklist ==
    <<
       [category |-> "Technical Skills",
        priority |-> "High",
        suggestion |->
          "Learn additional programming languages to increase versatility. Consider Python for data science or JavaScript for web development.",
        impact |-> "Significantly increases job opportunities",
        timeline |-> "3-6 months",
        resources |-> <<"Online courses", "Coding bootcamps", "Practice projects">>],
       [category |-> "Technical Skills",
        priority |-> "High",
        suggestion |->
          "Gain cloud computing experience with AWS, Azure, or Google Cloud. Cloud skills are in high demand.",
        impact |-> "Opens opportunities in modern tech companies",
        timeline |-> "2-4 months",
        resources |-> <<"AWS Free Tier", "Azure Learning Path", "Google Cloud Training">>],
       [category |-> "Content Quality",
        priority |-> "High",
        suggestion |->
          "Add quantifiable achievements with specific metrics (e.g., \"Improved performance by 40%\", \"Led team of 5 developers\").",
        impact |-> "Makes resume more compelling to recruiters",
        timeline |-> "1-2 weeks",
        resources |-> <<"Resume writing guides", "Achievement frameworks">>],
       [category |-> "Experience",
        priority |-> "Medium",
        suggestion |->
          "Highlight leadership experience, mentoring, or project management roles to demonstrate growth.",
        impact |-> "Essential for senior-level positions",
        timeline |-> "Immediate (if experience exists)",
        resources |-> <<"Leadership frameworks", "Mentoring programs">>],
       [category |-> "Portfolio",
        priority |-> "Medium",
        suggestion |->
          "Include links to GitHub profile, portfolio website, or notable projects to showcase your work.",
        impact |-> "Provides concrete evidence of skills",
        timeline |-> "2-4 weeks",
        resources |-> <<"GitHub Pages", "Portfolio templates", "Project documentation">>],
       [category |-> "Credentials",
        priority |-> "Medium",
        suggestion |->
          "Consider obtaining relevant certifications (AWS, Google Cloud, Microsoft, etc.) to validate your skills.",
        impact |-> "Increases credibility and market value",
        timeline |-> "1-3 months per certification",
        resources |-> <<"Official certification programs", "Practice exams", "Study groups">>],
       [category |-> "Format",
        priority |-> "Low",
        suggestion |->
          "Optimize resume for ATS (Applicant Tracking Systems) by using standard section headers and relevant keywords.",
        impact |-> "Improves chances of passing initial screening",
        timeline |-> "1-2 days",
        resources |-> <<"ATS optimization guides", "Keyword research tools">>],
       [category |-> "Soft Skills",
        priority |-> "Low",
        suggestion |->
          "Highlight soft skills like communication, teamwork, and problem-solving with specific examples.",
        impact |-> "Demonstrates well-rounded professional profile",
        timeline |-> "Immediate",
        resources |-> <<"Soft skills assessment", "Professional development courses">>] >>

\* the test in front of the k-th suggestion; the seventh is appended
\* unconditionally (line 1184)
Fires(k, txt, sa, ea) ==
    CASE k = 1 -> Len(sa.programming_languages) < 2
      [] k = 2 -> GetSkillsByCategory(sa.technical_skills, "cloud_platforms") = <<>>
      [] k = 3 -> ~HasQuantifiableAchievements(txt)
      [] k = 4 -> ea.level \in {"mid", "senior"} /\ ea.leadership_indicators = <<>>
      [] k = 5 -> ~HasPortfolioLinks(txt)
      [] k = 6 -> sa.certifications = <<>>
      [] k = 7 -> TRUE
      [] k = 8 -> Len(sa.soft_skills) < 3

\* suggestions[:8]: the list without the cut
TopEight(list) == Take(list, 8)

\* suggestions[:6], line 1205
TopSix(list) == Take(list, 6)

\* generate_improvement_suggestions, lines 1111-1205.  The result of
\* analyze_resume_structure (line 1116) is not used.
GenerateImprovementSuggestions(txt, sa, ea) ==
    LET fired == SelectSeq(Indices(Len(SuggestionChecklist)),
                           LAMBDA k : Fires(k, txt, sa, ea))
    IN TopSix([i \in 1..Len(fired) |-> SuggestionChecklist[fired[i]]])

(***************************************************************************)
(* SpecSuggest: one call of generate_improvement_suggestions, with the     *)
(* arguments analyze_resume passes (lines 1563-1574): a text of at most    *)
(* MaxPhrases phrases, its skills analysis and its experience analysis.    *)
(***************************************************************************)
SuggestPhrases ==
    << <<"S", "e", "n", "i", "o", "r">>,
       <<"p", "y", "t", "h", "o", "n", " ", "j", "a", "v", "a">>,
       <<"a", "w", "s">>, <<"c", "i", "s", "s", "p">>,
       <<"l", "e", "a", "d", "e", "r", "s", "h", "i", "p", " ", "c", "o", "m", "m", "u", "n", "i", "c", "a", "t", "i", "o", "n", " ", "t", "e", "a", "m", "w", "o", "r", "k">>,
       <<"i", "m", "p", "r", "o", "v", "e", "d", " ", "s", "a", "l", "e", "s", " ", "4", "0", "%">>,
       <<"g", "i", "t", "h", "u", "b", ".", "c", "o", "m">>,
       <<"l", "e", "d", " ", "a", " ", "t", "e", "a", "m", " ", "o", "f", " ", "5">> >>

SuggestTexts ==
    { JoinWords([k \in 1..Len(ps) |-> SuggestPhrases[ps[k]]]) :
         ps \in UNION { [1..n -> 1..Len(SuggestPhrases)] : n \in 0..MaxPhrases } }

\* skills_analysis and experience_analysis as analyze_resume computes them
SuggestArguments(txt, sa) ==
    [text |-> txt, skills_analysis |-> sa,
     experience_analysis |-> DetermineExperienceLevel(txt, sa)]

InitSuggest ==
    /\ analyzer = "advanced"
    /\ pc = "suggest_call"
    /\ text = <<>>
    /\ extraction_metadata = NewMetadata
    /\ extraction_info = NewInfo
    /\ extracted_text = <<>>
    /\ attempts = <<>>
    /\ raw_words = 0
    /\ invoked = <<>>
    /\ score_in = Idle /\ score_breakdown = Idle
    /\ skill_text = Idle /\ skills_analysis = Idle /\ match_counts = Idle
    /\ rec_in = Idle /\ recommendations = Idle /\ warnings = Idle
    /\ exp_in = Idle /\ exp_analysis = Idle
    /\ sug_in \in { SuggestArguments(txt, ExtractComprehensiveSkills(txt)) :
                      txt \in SuggestTexts }
    /\ suggestions = <<>>
    /\ PipelineIdle

SuggestCall ==
    /\ pc = "suggest_call"
    /\ suggestions' = GenerateImprovementSuggestions(sug_in.text,
                           sug_in.skills_analysis, sug_in.experience_analysis)
    /\ pc' = "suggest_returned"
    /\ UNCHANGED <<analyzer, text, extraction_metadata, extraction_info,
                   extracted_text, attempts, raw_words, invoked, scoreVars,
                   skillVars, recVars, exp_in, exp_analysis, sug_in,
                   pipeVars>>

NextSuggest == SuggestCall

SpecSuggest == InitSuggest /\ [][NextSuggest]_vars

SuggestReturned == pc = "suggest_returned"

\* the position of a suggestion in the checklist
ChecklistPosition(s) ==
    CHOOSE k \in 1..Len(SuggestionChecklist) : SuggestionChecklist[k] = s

\* C19: the list generate_improvement_suggestions returns always contains
\* the ATS-formatting tip, the suggestion of category 'Format'.
C19_AtsTipAlwaysIncluded ==
    SuggestReturned =>
        \E i \in 1..Len(suggestions) : suggestions[i].category = "Format"

\* C20: generate_improvement_suggestions returns at most 6 suggestions, in
\* the order of the checklist: each is a suggestion of the checklist and
\* their positions in it increase strictly, so none is repeated.
C20_AtMostSixInChecklistOrder ==
    SuggestReturned =>
        /\ Len(suggestions) <= 6
        /\ \A i \in 1..Len(suggestions) :
              \E k \in 1..Len(SuggestionChecklist) :
                 SuggestionChecklist[k] = suggestions[i]
        /\ \A i, j \in 1..Len(suggestions) :
              i < j => ChecklistPosition(suggestions[i])
                         < ChecklistPosition(suggestions[j])

\* seven checks fire, leadership being the one that does not: the first
\* six are returned and the soft-skill tip is cut
C20_Witness ==
    /\ SuggestReturned
    /\ Len(suggestions) = 6
    /\ Cardinality({ k \in 1..8 :
                       Fires(k, sug_in.text, sug_in.skills_analysis,
                             sug_in.experience_analysis) }) = 7
    /\ suggestions[6].category = "Format"
    /\ suggestions[1].category = "Technical Skills"
    /\ \A i \in 1..6 : suggestions[i].category # "Experience"

(***************************************************************************)
(* AdvancedResumeAnalyzer.analyze_resume, stage by stage, on texts held as *)
(* sequences of characters.                                                *)
(*                                                                         *)
(* A document is what its bytes make the libraries return: the text of     *)
(* each page, taken to be the same for PyMuPDF, pdfplumber and PyPDF2, no  *)
(* tables, and the readable words and cleaned text the raw-byte scan finds *)
(* (none in a compressed PDF).  The libraries are functions of the bytes.  *)
(***************************************************************************)
Documents ==
    [senior |-> [pages |-> << <<"S", "e", "n", "i", "o", "r", " ", "S", "o", "f", "t", "w", "a", "r", "e", " ", "E", "n", "g", "i", "n", "e", "e", "r", " ", "w", "i", "t", "h", " ", "8", "+", " ", "y", "e", "a", "r", "s", " ", "o", "f", " ", "e", "x", "p", "e", "r", "i", "e", "n", "c", "e", ".", " ", "L", "e", "d", " ", "t", "e", "a", "m", " ", "o", "f", " ", "5", " ", "d", "e", "v", "e", "l", "o", "p", "e", "r", "s", ".", " ", "S", "k", "i", "l", "l", "s", ":", " ", "A", "W", "S", ",", " ", "D", "o", "c", "k", "e", "r", ",", " ", "P", "y", "t", "h", "o", "n", ",", " ", "R", "e", "a", "c", "t">> >>, raw_words |-> 0,
                raw_text |-> <<>>],
     baker |-> [pages |-> << <<"F", "r", "i", "e", "n", "d", "l", "y", " ", "b", "a", "k", "e", "r", " ", "w", "h", "o", " ", "e", "n", "j", "o", "y", "s", " ", "l", "o", "n", "g", " ", "w", "a", "l", "k", "s", ",", " ", "g", "a", "r", "d", "e", "n", "i", "n", "g", " ", "a", "n", "d", " ", "c", "o", "o", "k", "i", "n", "g", " ", "a", "t", " ", "h", "o", "m", "e", " ", "e", "v", "e", "r", "y", " ", "d", "a", "y", ".">> >>, raw_words |-> 0,
                raw_text |-> <<>>],
     note |-> [pages |-> << <<"H", "i", " ", "t", "h", "e", "r", "e">> >>, raw_words |-> 0,
                raw_text |-> <<>>]]

Filenames == {"cv.pdf", "resume.pdf"}

\* f"\n--- Page {page_num + 1} ---\n"
PageMarkerChars(i) ==
    <<"\n", "-", "-", "-", " ", "P", "a", "g", "e", " ">> \o StrOf(i)
        \o <<" ", "-", "-", "-", "\n">>

\* the for loop over the pages: lines 251-255 (if page_text.strip()),
\* 278-280 and 311-314 (if page_text)
RECURSIVE LibraryText(_, _, _)
LibraryText(m, pages, i) ==
    IF i > Len(pages) THEN <<>>
    ELSE (IF (IF m = "pymupdf" THEN StripChars(pages[i]) ELSE pages[i]) # <<>>
          THEN PageMarkerChars(i) \o pages[i] ELSE <<>>)
         \o LibraryText(m, pages, i + 1)

\* extract_text_from_pdf, lines 231-357, on a document every library opens
\* and reads without raising: `text` grows from strategy to strategy.
RECURSIVE TryFrom(_, _, _, _)
TryFrom(k, doc, txt, md) ==
    LET m == Methods[k]
        tried == [md EXCEPT !.methods_tried = Append(@, m)]
    IN IF m = "raw_bytes"
       THEN IF EnoughWords(doc.raw_words)
            THEN [text |-> doc.raw_text,
                  metadata |-> [tried EXCEPT
                                   !.successful_method = m,
                                   !.extraction_quality = Quality[m]]]
            ELSE [text |-> <<>>,
                  metadata |-> [tried EXCEPT !.extraction_quality = "failed"]]
       ELSE LET t1 == txt \o LibraryText(m, doc.pages, 1)
                md1 == [tried EXCEPT !.page_count = Len(doc.pages)]
            IN IF Len(StripChars(t1)) > MinLength[m]
               THEN [text |-> t1,
                     metadata |-> [md1 EXCEPT !.successful_method = m,
                                              !.extraction_quality = Quality[m]]]
               ELSE TryFrom(k + 1, doc, t1, md1)

\* text = "" (line 241), then the strategies in turn
ExtractTextFromPdf(doc) == TryFrom(1, doc, <<>>, NewMetadata)

\* re.sub(r'\s+', ' ', text), line 373
NormalizeWhitespace(t) ==
    LET kept == SelectSeq(Indices(Len(t)),
                   LAMBDA i : t[i] \notin SpaceChars
                              \/ i = 1 \/ t[i - 1] \notin SpaceChars)
    IN [k \in 1..Len(kept) |->
           IF t[kept[k]] \in SpaceChars THEN " " ELSE t[kept[k]]]

\* the punctuation the character class of line 374 keeps
KeptPunctuation ==
    {".", ",", "-", "@", "$", "[", "]", "{", "}", "/", "\\", ":", ";", "!",
     "?", "%", "&", "*", "+", "=", "<", ">", "|", "~", "`", "'", "\""}

\* variant: a character outside the class is replaced by two spaces
BlankWithTwoSpaces(t) ==
    Flatten([i \in 1..Len(t) |->
        IF IsWordChar(t[i]) \/ t[i] \in SpaceChars \/ t[i] \in KeptPunctuation
        THEN <<t[i]>> ELSE <<" ", " ">>])

\* re.sub(r'[^\w\s\.\,\-\@...]', ' ', text), line 374
BlankOtherCharacters(t) ==
    [i \in 1..Len(t) |->
        IF IsWordChar(t[i]) \/ t[i] \in SpaceChars \/ t[i] \in KeptPunctuation
        THEN t[i] ELSE " "]

\* r'--- Page \d+ ---' matched at position i: the position after the match,
\* 0 when it does not match there
PageMarkerAt(t, i) ==
    LET p == <<"-", "-", "-", " ", "P", "a", "g", "e", " ">>
        e == DigitRunEnd(t, i + Len(p))
    IN IF StartsWith(t, i, p) /\ e > i + Len(p)
          /\ StartsWith(t, e, <<" ", "-", "-", "-">>)
       THEN e + 4 ELSE 0

\* r'--- Table \d+ on Page \d+ ---' matched at position i
TableMarkerAt(t, i) ==
    LET p == <<"-", "-", "-", " ", "T", "a", "b", "l", "e", " ">>
        q == <<" ", "o", "n", " ", "P", "a", "g", "e", " ">>
        e == DigitRunEnd(t, i + Len(p))
        f == DigitRunEnd(t, e + Len(q))
    IN IF StartsWith(t, i, p) /\ e > i + Len(p) /\ StartsWith(t, e, q)
          /\ f > e + Len(q) /\ StartsWith(t, f, <<" ", "-", "-", "-">>)
       THEN f + 4 ELSE 0

\* re.sub(marker, '', text): the matches are taken from left to right
MarkerAt(marker, t, i) ==
    IF marker = "page" THEN PageMarkerAt(t, i) ELSE TableMarkerAt(t, i)

RECURSIVE RemoveMarkers(_, _, _)
RemoveMarkers(marker, t, from) ==
    LET here == { i \in from..Len(t) : MarkerAt(marker, t, i) # 0 }
    IN IF here = {} THEN SubSeq(t, from, Len(t))
       ELSE SubSeq(t, from, MinOf(here) - 1)
            \o RemoveMarkers(marker, t, MarkerAt(marker, t, MinOf(here)))

\* the test on a line, lines 392-397: longer than two characters and more
\* than 30% of it word characters or whitespace
KeepsLine(line) ==
    /\ Len(line) > 2
    /\ 10 * Len(SelectSeq(line, LAMBDA c : IsWordChar(c) \/ c \in SpaceChars))
         > 3 * Len(line)

\* re.findall(r'\b\w+\b', t): the maximal runs of word characters
RECURSIVE WordRunEnd(_, _)
WordRunEnd(t, i) ==
    IF i <= Len(t) /\ IsWordChar(t[i]) THEN WordRunEnd(t, i + 1) ELSE i

WordsOf(t) ==
    LET starts == SelectSeq(Indices(Len(t)),
                     LAMBDA i : IsWordChar(t[i])
                                /\ (i = 1 \/ ~IsWordChar(t[i - 1])))
    IN [k \in 1..Len(starts) |->
           SubSeq(t, starts[k], WordRunEnd(t, starts[k]) - 1)]

\* section_patterns, lines 417-426
SectionPatterns ==
    << 
       [section |-> "contact", words |->
           << <<"e", "m", "a", "i", "l">>, <<"p", "h", "o", "n", "e">>,
              <<"a", "d", "d", "r", "e", "s", "s">>,
              <<"l", "i", "n", "k", "e", "d", "i", "n">>,
              <<"g", "i", "t", "h", "u", "b">> >>],
       [section |-> "summary", words |->
           << <<"s", "u", "m", "m", "a", "r", "y">>,
              <<"o", "b", "j", "e", "c", "t", "i", "v", "e">>,
              <<"p", "r", "o", "f", "i", "l", "e">>,
              <<"a", "b", "o", "u", "t">> >>],
       [section |-> "experience", words |->
           << <<"e", "x", "p", "e", "r", "i", "e", "n", "c", "e">>,
              <<"e", "m", "p", "l", "o", "y", "m", "e", "n", "t">>,
              <<"w", "o", "r", "k", " ", "h", "i", "s", "t", "o", "r", "y">>,
              <<"p", "r", "o", "f", "e", "s", "s", "i", "o", "n", "a", "l">> >>],
       [section |-> "education", words |->
           << <<"e", "d", "u", "c", "a", "t", "i", "o", "n">>,
              <<"d", "e", "g", "r", "e", "e">>,
              <<"u", "n", "i", "v", "e", "r", "s", "i", "t", "y">>,
              <<"c", "o", "l", "l", "e", "g", "e">>,
              <<"s", "c", "h", "o", "o", "l">> >>],
       [section |-> "skills", words |->
           << <<"s", "k", "i", "l", "l", "s">>,
              <<"t", "e", "c", "h", "n", "o", "l", "o", "g", "i", "e", "s">>,
              <<"c", "o", "m", "p", "e", "t", "e", "n", "c", "i", "e", "s">>,
              <<"e", "x", "p", "e", "r", "t", "i", "s", "e">> >>],
       [section |-> "projects", words |->
           << <<"p", "r", "o", "j", "e", "c", "t", "s">>,
              <<"p", "o", "r", "t", "f", "o", "l", "i", "o">>,
              <<"w", "o", "r", "k", " ", "s", "a", "m", "p", "l", "e", "s">> >>],
       [section |-> "certifications", words |->
           << <<"c", "e", "r", "t", "i", "f", "i", "c", "a", "t", "i", "o", "n", "s">>,
              <<"c", "e", "r", "t", "i", "f", "i", "c", "a", "t", "e", "s">>,
              <<"l", "i", "c", "e", "n", "s", "e", "s">> >>],
       [section |-> "awards", words |->
           << <<"a", "w", "a", "r", "d", "s">>,
              <<"a", "c", "h", "i", "e", "v", "e", "m", "e", "n", "t", "s">>,
              <<"h", "o", "n", "o", "r", "s">>,
              <<"r", "e", "c", "o", "g", "n", "i", "t", "i", "o", "n">> >>] >>

\* for section, pattern in section_patterns.items():
\*     if re.search(pattern, cleaned_text, re.IGNORECASE)   (lines 428-430)
SectionsDetected(cleaned_text) ==
    LET found == SelectSeq(Indices(Len(SectionPatterns)),
                    LAMBDA k : SearchAny(SectionPatterns[k].words,
                                         ToLower(cleaned_text)))
    IN [k \in 1..Len(found) |-> SectionPatterns[found[k]].section]

\* the dict preprocess_text returns for cleaned_text (lines 361-370, 400,
\* 412-414, 430); self.nlp is None (line 96), so sentences and
\* languages_detected keep their initial values
PreprocessingResult(original, cleaned_text) ==
    [cleaned_text |-> cleaned_text,
     preprocessing_info |->
        [original_length |-> Len(original),
         cleaned_length |-> Len(cleaned_text),
         sentences |-> 0,
         words |-> Len(WordsOf(ToLower(cleaned_text))),
         unique_words |-> Cardinality(Elements(WordsOf(ToLower(cleaned_text)))),
         sections_detected |-> SectionsDetected(cleaned_text),
         languages_detected |-> <<>>,
         encoding_issues |-> FALSE]]

\* preprocess_text, lines 359-435.  After line 373 the text holds no
\* newline, so text.split('\n') is the one line that is the whole text.
PreprocessText(txt) ==
    LET unmarked ==
            RemoveMarkers("table",
                RemoveMarkers("page",
                    BlankOtherCharacters(NormalizeWhitespace(txt)), 1), 1)
        line == StripChars(unmarked)
    IN PreprocessingResult(txt, IF KeepsLine(line) THEN line ELSE <<>>)

\* one dict of generate_interview_questions; the f-strings of lines 1299
\* and 1303 are held as their parts
Question(question, category, difficulty, skill_focus, follow_up) ==
    [question |-> question, category |-> category, difficulty |-> difficulty,
     skill_focus |-> skill_focus, follow_up |-> follow_up]

\* lines 1297-1304
SkillQuestion(skill) ==
    Question(<<"Explain your experience with ", skill,
               " and describe a challenging project where you used it effectively.">>,
             "Technical", "Medium", <<skill>>,
             <<"What are some best practices you follow when working with ",
               skill, "?">>)

\* lines 1308-1323
DesignQuestions ==
    << Question(<<"Design a scalable system for a social media platform that handles millions of users.">>,
                "System Design", "Hard", <<"Architecture">>,
                <<"How would you handle data consistency and caching?">>),
       Question(<<"How would you approach optimizing a slow-performing database query?">>,
                "Technical", "Medium", <<"Database Optimization">>,
                <<"What tools would you use to identify performance bottlenecks?">>) >>

\* lines 1326-1348
BehavioralQuestions ==
    << Question(<<"Tell me about a time when you had to learn a new technology quickly for a project.">>,
                "Behavioral", "Medium", <<"Adaptability">>,
                <<"How do you typically approach learning new technologies?">>),
       Question(<<"Describe a challenging bug you encountered and how you debugged it.">>,
                "Behavioral", "Medium", <<"Problem Solving">>,
                <<"What debugging strategies do you find most effective?">>),
       Question(<<"How do you handle disagreements with team members about technical decisions?">>,
                "Behavioral", "Medium", <<"Communication">>,
                <<"Can you give an example of when you changed your mind based on feedback?">>) >>

\* lines 1352-1368.  Line 1365 of the source is a damaged copy of lines
\* 1364 and 1366 that no Python parser accepts; the dict is taken with its
\* five keys as lines 1361-1364 and 1366 give them.
LeadershipQuestions ==
    << Question(<<"How do you mentor junior developers and help them grow?">>,
                "Leadership", "Medium", <<"Mentoring">>,
                <<"What's the most rewarding mentoring experience you've had?">>),
       Question(<<"Describe how you would handle a situation where your team is behind schedule on a critical project.">>,
                "Leadership", "Hard", <<"Project Management">>,
                <<"How do you balance quality with delivery deadlines?">>) >>

\* lines 1371-1386
SituationalQuestions ==
    << Question(<<"How would you approach debugging a production issue that's affecting users?">>,
                "Situational", "Medium", <<"Incident Response">>,
                <<"What steps would you take to prevent similar issues in the future?">>),
       Question(<<"If you had to choose between delivering a feature on time with technical debt or delaying for a cleaner implementation, what would you do?">>,
                "Situational", "Hard", <<"Decision Making">>,
                <<"How do you communicate technical trade-offs to non-technical stakeholders?">>) >>

\* lines 1390-1396
MachineLearningQuestion ==
    Question(<<"Explain the difference between supervised and unsupervised learning with examples.">>,
             "Technical", "Medium", <<"Machine Learning">>,
             <<"When would you choose one approach over the other?">>)

\* lines 1399-1405
CloudQuestion ==
    Question(<<"How would you design a cloud architecture for high availability and disaster recovery?">>,
             "Technical", "Hard", <<"Cloud Architecture">>,
             <<"What are the cost implications of your design choices?">>)

\* generate_interview_questions, lines 1290-1407
GenerateInterviewQuestions(sa, ea) ==
    LET primary_skills == Take(sa.programming_languages, 2)
    IN Take([k \in 1..Len(primary_skills) |-> SkillQuestion(primary_skills[k])]
            \o (IF ea.level \in {"mid", "senior"} THEN DesignQuestions ELSE <<>>)
            \o BehavioralQuestions
            \o (IF ea.level = "senior" THEN LeadershipQuestions ELSE <<>>)
            \o SituationalQuestions
            \o (IF GetSkillsByCategory(sa.technical_skills, "data_science") # <<>>
                THEN <<MachineLearningQuestion>> ELSE <<>>)
            \o (IF GetSkillsByCategory(sa.technical_skills, "cloud_platforms") # <<>>
                THEN <<CloudQuestion>> ELSE <<>>),
            10)

\* variant: the certifications found are kept on the instance, one more
\* with every call that finished
ScoreArgumentsKeepingCount(sa, ea, txt, md) ==
    [total_technical_skills |-> TotalSkills(sa.technical_skills),
     certifications |-> Len(sa.certifications) + Len(reports),
     soft_skills |-> Len(sa.soft_skills),
     level |-> ea.level,
     leadership_indicators |-> Len(ea.leadership_indicators),
     confidence |-> ea.confidence,
     section_count |-> AnalyzeResumeStructure(txt).section_count,
     word_count |-> WordCount(txt),
     achievements |-> HasQuantifiableAchievements(txt),
     portfolio_links |-> HasPortfolioLinks(txt),
     extraction_quality |-> md.extraction_quality]

\* what calculate_overall_score reads of its four arguments (lines
\* 1425-1505)
ScoreArguments(sa, ea, txt, md) ==
    [total_technical_skills |-> TotalSkills(sa.technical_skills),
     certifications |-> Len(sa.certifications),
     soft_skills |-> Len(sa.soft_skills),
     level |-> ea.level,
     leadership_indicators |-> Len(ea.leadership_indicators),
     confidence |-> ea.confidence,
     section_count |-> AnalyzeResumeStructure(txt).section_count,
     word_count |-> WordCount(txt),
     achievements |-> HasQuantifiableAchievements(txt),
     portfolio_links |-> HasPortfolioLinks(txt),
     extraction_quality |-> md.extraction_quality]

\* a local of analyze_resume that no statement has bound yet
Unbound == "unbound"

\* the locals of analyze_resume after line 1540
NewCall(pdf_bytes, filename, clock) ==
    [pdf_bytes |-> pdf_bytes, filename |-> filename,
     analysis_start_time |-> clock,
     extracted_text |-> Unbound, extraction_metadata |-> Unbound,
     cleaned_text |-> Unbound, preprocessing_info |-> Unbound,
     skills_analysis |-> Unbound, experience_analysis |-> Unbound,
     job_recommendations |-> Unbound, improvement_suggestions |-> Unbound,
     interview_questions |-> Unbound, score_analysis |-> Unbound]

\* the literal '2.0.0' of line 1595
AnalyzerVersion == "2.0.0"

\* the dict of lines 1590-1633; analysis_time is datetime.now() minus
\* analysis_start_time (line 1587)
Result(c, analysis_time) ==
    [analysis_metadata |->
        [filename |-> c.filename,
         analysis_time_seconds |-> analysis_time,
         analysis_timestamp |-> c.analysis_start_time,
         analyzer_version |-> AnalyzerVersion,
         extraction_method |-> c.extraction_metadata.successful_method,
         extraction_quality |-> c.extraction_metadata.extraction_quality],
     extraction_details |->
        [original_text_length |-> Len(c.extracted_text),
         cleaned_text_length |-> Len(c.cleaned_text),
         page_count |-> c.extraction_metadata.page_count,
         methods_tried |-> c.extraction_metadata.methods_tried,
         extraction_errors |-> c.extraction_metadata.errors],
     preprocessing_info |-> c.preprocessing_info,
     skills_analysis |->
        [technical_skills |-> c.skills_analysis.technical_skills,
         soft_skills |-> c.skills_analysis.soft_skills,
         certifications |-> c.skills_analysis.certifications,
         programming_languages |-> c.skills_analysis.programming_languages,
         frameworks_and_libraries |->
             c.skills_analysis.frameworks_and_libraries,
         databases |-> c.skills_analysis.databases,
         cloud_platforms |-> c.skills_analysis.cloud_platforms,
         tools_and_technologies |-> c.skills_analysis.tools_and_technologies,
         skill_confidence_scores |->
             c.skills_analysis.skill_confidence_scores,
         years_of_experience |-> c.skills_analysis.years_of_experience,
         total_technical_skills |->
             TotalSkills(c.skills_analysis.technical_skills)],
     experience_analysis |-> c.experience_analysis,
     score_analysis |-> c.score_analysis,
     job_recommendations |-> c.job_recommendations,
     improvement_suggestions |-> c.improvement_suggestions,
     interview_questions |-> c.interview_questions,
     extracted_data |->
        [full_text |-> c.extracted_text,
         cleaned_text |-> c.cleaned_text,
         text_length |-> Len(c.extracted_text),
         filename |-> c.filename],
     analysis_method |-> "python_advanced_comprehensive"]

\* what a finished call leaves with its caller: the dict it returned or the
\* exception it raised
Finished(c, outcome, report) ==
    [pdf_bytes |-> c.pdf_bytes, filename |-> c.filename,
     outcome |-> outcome, report |-> report]

\* The cleaned texts of the Documents, and extract_comprehensive_skills
\* evaluated once for each of them.
CleanedTexts ==
    { PreprocessText(ExtractTextFromPdf(Documents[d]).text).cleaned_text :
        d \in DOMAIN Documents }

SkillsOfCleanedTexts ==
    [t \in CleanedTexts |-> ExtractComprehensiveSkills(t)]

\* self.extract_comprehensive_skills(cleaned_text), line 1561
SkillsAnalysisOf(cleaned_text) ==
    IF cleaned_text \in CleanedTexts THEN SkillsOfCleanedTexts[cleaned_text]
    ELSE ExtractComprehensiveSkills(cleaned_text)

(***************************************************************************)
(* SpecPipeline: calls of analyze_resume on one AdvancedResumeAnalyzer,    *)
(* one after the other, each on one of the Documents under one of the      *)
(* Filenames, while the clock runs.                                        *)
(***************************************************************************)
MaxCalls == 3
MaxClock == 1

InitPipeline ==
    /\ analyzer = "advanced"
    /\ pc = "idle"
    /\ text = <<>>
    /\ extraction_metadata = NewMetadata
    /\ extraction_info = NewInfo
    /\ extracted_text = <<>>
    /\ attempts = <<>>
    /\ raw_words = 0
    /\ invoked = <<>>
    /\ score_in = Idle /\ score_breakdown = Idle
    /\ skill_text = Idle /\ skills_analysis = Idle /\ match_counts = Idle
    /\ rec_in = Idle /\ recommendations = Idle /\ warnings = Idle
    /\ exp_in = Idle /\ exp_analysis = Idle
    /\ sug_in = Idle /\ suggestions = Idle
    /\ now = 0
    /\ call = Idle
    /\ reports = <<>>
    /\ reference_tables = Idle

PipelineFrame ==
    UNCHANGED <<analyzer, text, extraction_metadata, extraction_info,
                extracted_text, attempts, raw_words, invoked, scoreVars,
                skillVars, recVars, stageVars, reference_tables>>

\* time passes.  The clock is read at lines 1540 and 1587 only, so the
\* time that passes during the stages is taken in one step before the
\* second reading.
Tick ==
    /\ pc \in {"idle", "compile"}
    /\ now < MaxClock
    /\ now' = now + 1
    /\ UNCHANGED <<pc, call, reports>>
    /\ PipelineFrame

\* analysis_start_time = datetime.now(), line 1540
StartCall ==
    /\ pc = "idle"
    /\ Len(reports) < MaxCalls
    /\ \E d \in DOMAIN Documents, f \in Filenames : call' = NewCall(d, f, now)
    /\ pc' = "extract_text_from_pdf"
    /\ UNCHANGED <<now, reports>>
    /\ PipelineFrame

\* lines 1546-1549: the extraction and the length test; the ValueError
\* leaves the call through `raise e` (line 1641)
PipeExtract ==
    /\ pc = "extract_text_from_pdf"
    /\ LET r == ExtractTextFromPdf(Documents[call.pdf_bytes])
       IN IF Len(StripChars(r.text)) < MinMeaningfulText
          THEN /\ reports' = Append(reports,
                                Finished(call, "raised_ValueError", Unbound))
               /\ call' = Idle
               /\ pc' = "idle"
          ELSE /\ call' = [call EXCEPT !.extracted_text = r.text,
                                       !.extraction_metadata = r.metadata]
               /\ pc' = "preprocess_text"
               /\ UNCHANGED reports
    /\ UNCHANGED now
    /\ PipelineFrame

\* lines 1554-1556
PipePreprocess ==
    /\ pc = "preprocess_text"
    /\ LET r == PreprocessText(call.extracted_text)
       IN call' = [call EXCEPT !.cleaned_text = r.cleaned_text,
                               !.preprocessing_info = r.preprocessing_info]
    /\ pc' = "extract_comprehensive_skills"
    /\ UNCHANGED <<now, reports>>
    /\ PipelineFrame

\* line 1561
PipeSkills ==
    /\ pc = "extract_comprehensive_skills"
    /\ call' = [call EXCEPT !.skills_analysis =
                                SkillsAnalysisOf(call.cleaned_text)]
    /\ pc' = "determine_experience_level"
    /\ UNCHANGED <<now, reports>>
    /\ PipelineFrame

\* line 1567
PipeExperience ==
    /\ pc = "determine_experience_level"
    /\ call' = [call EXCEPT !.experience_analysis =
                   DetermineExperienceLevel(call.cleaned_text,
                                            call.skills_analysis)]
    /\ pc' = "generate_detailed_job_recommendations"
    /\ UNCHANGED <<now, reports>>
    /\ PipelineFrame

\* line 1571
PipeRecommendations ==
    /\ pc = "generate_detailed_job_recommendations"
    /\ call' = [call EXCEPT !.job_recommendations =
                   GenerateDetailedJobRecommendations(call.skills_analysis,
                       call.experience_analysis).result]
    /\ pc' = "generate_improvement_suggestions"
    /\ UNCHANGED <<now, reports>>
    /\ PipelineFrame

\* line 1575
PipeSuggestions ==
    /\ pc = "generate_improvement_suggestions"
    /\ call' = [call EXCEPT !.improvement_suggestions =
                   GenerateImprovementSuggestions(call.cleaned_text,
                       call.skills_analysis, call.experience_analysis)]
    /\ pc' = "generate_interview_questions"
    /\ UNCHANGED <<now, reports>>
    /\ PipelineFrame

\* line 1579
PipeQuestions ==
    /\ pc = "generate_interview_questions"
    /\ call' = [call EXCEPT !.interview_questions =
                   GenerateInterviewQuestions(call.skills_analysis,
                                              call.experience_analysis)]
    /\ pc' = "calculate_overall_score"
    /\ UNCHANGED <<now, reports>>
    /\ PipelineFrame

\* line 1583
PipeScore ==
    /\ pc = "calculate_overall_score"
    /\ call' = [call EXCEPT !.score_analysis =
                   CalculateOverallScore(
                       ScoreArguments(call.skills_analysis,
                                      call.experience_analysis,
                                      call.cleaned_text,
                                      call.extraction_metadata))]
    /\ pc' = "compile"
    /\ UNCHANGED <<now, reports>>
    /\ PipelineFrame

\* lines 1587-1636: the second reading of the clock, the result dict and
\* the return
PipeCompile ==
    /\ pc = "compile"
    /\ reports' = Append(reports,
                     Finished(call, "returned",
                              Result(call, now - call.analysis_start_time)))
    /\ call' = Idle
    /\ pc' = "idle"
    /\ UNCHANGED now
    /\ PipelineFrame

NextPipeline ==
    \/ Tick \/ StartCall \/ PipeExtract \/ PipePreprocess \/ PipeSkills
    \/ PipeExperience \/ PipeRecommendations \/ PipeSuggestions
    \/ PipeQuestions \/ PipeScore \/ PipeCompile

SpecPipeline == InitPipeline /\ [][NextPipeline]_vars

\* the calls that returned a report
ReturnedCalls == { i \in 1..Len(reports) : reports[i].outcome = "returned" }

\* the calls i < j made with the same arguments
SameArguments(i, j) ==
    /\ i < j
    /\ reports[i].pdf_bytes = reports[j].pdf_bytes
    /\ reports[i].filename = reports[j].filename

\* the report without the two readings of the clock
WithoutTiming(report) ==
    [report EXCEPT !.analysis_metadata.analysis_time_seconds = 0,
                   !.analysis_metadata.analysis_timestamp = 0]

JobMarketData ==
    [software_engineer |-> [junior |-> [salary_range |-> "$60,000 - $90,000",
                                        required_skills |-> << "programming",
                                                               "version control",
                                                               "debugging" >>,
                                        preferred_skills |-> << "web development",
                                                                "databases",
                                                                "testing" >>],
                            mid |-> [salary_range |-> "$90,000 - $130,000",
                                     required_skills |-> << "multiple programming languages",
                                                            "system design",
                                                            "databases" >>,
                                     preferred_skills |-> << "cloud platforms",
                                                             "devops",
                                                             "mentoring" >>],
                            senior |-> [salary_range |-> "$130,000 - $180,000",
                                        required_skills |-> << "architecture",
                                                               "leadership",
                                                               "system design" >>,
                                        preferred_skills |-> << "team management",
                                                                "strategic planning",
                                                                "innovation" >>]],
     data_scientist |-> [junior |-> [salary_range |-> "$70,000 - $100,000",
                                     required_skills |-> << "python/r",
                                                            "statistics",
                                                            "machine learning" >>,
                                     preferred_skills |-> << "sql",
                                                             "data visualization",
                                                             "pandas" >>],
                         mid |-> [salary_range |-> "$100,000 - $140,000",
                                  required_skills |-> << "advanced ml",
                                                         "big data",
                                                         "model deployment" >>,
                                  preferred_skills |-> << "deep learning",
                                                          "cloud platforms",
                                                          "mlops" >>],
                         senior |-> [salary_range |-> "$140,000 - $200,000",
                                     required_skills |-> << "ml strategy",
                                                            "team leadership",
                                                            "business acumen" >>,
                                     preferred_skills |-> << "research",
                                                             "innovation",
                                                             "stakeholder management" >>]],
     devops_engineer |-> [junior |-> [salary_range |-> "$65,000 - $95,000",
                                      required_skills |-> << "linux",
                                                             "scripting",
                                                             "ci/cd" >>,
                                      preferred_skills |-> << "docker",
                                                              "cloud basics",
                                                              "monitoring" >>],
                          mid |-> [salary_range |-> "$95,000 - $135,000",
                                   required_skills |-> << "kubernetes",
                                                          "infrastructure as code",
                                                          "cloud platforms" >>,
                                   preferred_skills |-> << "security",
                                                           "automation",
                                                           "performance optimization" >>],
                          senior |-> [salary_range |-> "$135,000 - $185,000",
                                      required_skills |-> << "architecture",
                                                             "security",
                                                             "team leadership" >>,
                                      preferred_skills |-> << "cost optimization",
                                                              "disaster recovery",
                                                              "compliance" >>]]]

\* self.skill_patterns, realtime_resume_analyzer.py lines 69-133
SkillPatterns ==
    [programming_languages |-> << <<"python", << "\\bpython\\b", "\\bpy\\b",
                                              "\\bdjango\\b", "\\bflask\\b",
                                              "\\bfastapi\\b" >>>>,
                                  <<"javascript", << "\\bjavascript\\b",
                                                  "\\bjs\\b",
                                                  "\\bnode\\.?js\\b",
                                                  "\\breact\\b", "\\bvue\\b",
                                                  "\\bangular\\b" >>>>,
                                  <<"java", << "\\bjava\\b", "\\bspring\\b",
                                            "\\bhibernate\\b" >>>>,
                                  <<"typescript", << "\\btypescript\\b",
                                                  "\\bts\\b" >>>>,
                                  <<"c++", <<"\\bc\\+\\+\\b", "\\bcpp\\b">>>>,
                                  <<"c#", << "\\bc#\\b", "\\bcsharp\\b",
                                          "\\b\\.net\\b" >>>>,
                                  <<"php", << "\\bphp\\b", "\\blaravel\\b",
                                           "\\bsymfony\\b" >>>>,
                                  <<"go", <<"\\bgolang\\b", "\\bgo\\s+lang\\b">>>>,
                                  <<"rust", <<"\\brust\\b">>>>,
                                  <<"swift", <<"\\bswift\\b">>>>,
                                  <<"kotlin", <<"\\bkotlin\\b">>>>,
                                  <<"sql", << "\\bsql\\b", "\\bmysql\\b",
                                           "\\bpostgresql\\b",
                                           "\\bsqlite\\b" >>>> >>,
     frameworks |-> [react |-> << "\\breact\\b", "\\breactjs\\b",
                                  "\\breact\\.js\\b" >>,
                     angular |-> <<"\\bangular\\b", "\\bangularjs\\b">>,
                     vue |-> <<"\\bvue\\b", "\\bvuejs\\b", "\\bvue\\.js\\b">>,
                     express |-> <<"\\bexpress\\b", "\\bexpress\\.js\\b">>,
                     django |-> <<"\\bdjango\\b">>,
                     flask |-> <<"\\bflask\\b">>,
                     spring |-> <<"\\bspring\\b", "\\bspring\\s+boot\\b">>,
                     laravel |-> <<"\\blaravel\\b">>,
                     rails |-> <<"\\brails\\b", "\\bruby\\s+on\\s+rails\\b">>],
     databases |-> [mysql |-> <<"\\bmysql\\b">>,
                    postgresql |-> <<"\\bpostgresql\\b", "\\bpostgres\\b">>,
                    mongodb |-> <<"\\bmongodb\\b", "\\bmongo\\b">>,
                    redis |-> <<"\\bredis\\b">>,
                    elasticsearch |-> << "\\belasticsearch\\b",
                                         "\\belastic\\b" >>,
                    oracle |-> <<"\\boracle\\b">>,
                    sqlite |-> <<"\\bsqlite\\b">>],
     cloud_platforms |-> [aws |-> << "\\baws\\b",
                                     "\\bamazon\\s+web\\s+services\\b",
                                     "\\bec2\\b", "\\bs3\\b",
                                     "\\blambda\\b" >>,
                          azure |-> << "\\bazure\\b",
                                       "\\bmicrosoft\\s+azure\\b" >>,
                          gcp |-> << "\\bgcp\\b", "\\bgoogle\\s+cloud\\b",
                                     "\\bapp\\s+engine\\b" >>,
                          heroku |-> <<"\\bheroku\\b">>,
                          vercel |-> <<"\\bvercel\\b">>,
                          netlify |-> <<"\\bnetlify\\b">>],
     devops |-> << <<"docker", <<"\\bdocker\\b">>>>,
                   <<"kubernetes", <<"\\bkubernetes\\b", "\\bk8s\\b">>>>,
                   <<"jenkins", <<"\\bjenkins\\b">>>>,
                   <<"git", <<"\\bgit\\b", "\\bgithub\\b", "\\bgitlab\\b">>>>,
                   <<"terraform", <<"\\bterraform\\b">>>>,
                   <<"ansible", <<"\\bansible\\b">>>>,
                   <<"ci/cd", << "\\bci/cd\\b",
                              "\\bcontinuous\\s+integration\\b",
                              "\\bcontinuous\\s+deployment\\b" >>>> >>,
     tools |-> [vscode |-> << "\\bvscode\\b",
                              "\\bvisual\\s+studio\\s+code\\b" >>,
                intellij |-> <<"\\bintellij\\b">>,
                jira |-> <<"\\bjira\\b">>,
                confluence |-> <<"\\bconfluence\\b">>,
                slack |-> <<"\\bslack\\b">>,
                figma |-> <<"\\bfigma\\b">>,
                photoshop |-> <<"\\bphotoshop\\b">>,
                sketch |-> <<"\\bsketch\\b">>]]

\* self.job_role_patterns, realtime_resume_analyzer.py lines 153-162
JobRolePatterns ==
    [software_engineer |-> << "\\bsoftware\\s+engineer\\b",
                              "\\bsoftware\\s+developer\\b",
                              "\\bdeveloper\\b" >>,
     frontend_developer |-> << "\\bfrontend\\b", "\\bfront-end\\b",
                               "\\bfront\\s+end\\b",
                               "\\bui\\s+developer\\b" >>,
     backend_developer |-> << "\\bbackend\\b", "\\bback-end\\b",
                              "\\bback\\s+end\\b", "\\bserver\\s+side\\b" >>,
     fullstack_developer |-> << "\\bfullstack\\b", "\\bfull-stack\\b",
                                "\\bfull\\s+stack\\b" >>,
     data_scientist |-> << "\\bdata\\s+scientist\\b",
                           "\\bdata\\s+analyst\\b",
                           "\\bmachine\\s+learning\\b" >>,
     devops_engineer |-> << "\\bdevops\\b", "\\bsite\\s+reliability\\b",
                            "\\binfrastructure\\b" >>,
     mobile_developer |-> << "\\bmobile\\s+developer\\b",
                             "\\bios\\s+developer\\b",
                             "\\bandroid\\s+developer\\b" >>,
     product_manager |-> << "\\bproduct\\s+manager\\b", "\\bpm\\b",
                            "\\bproduct\\s+owner\\b" >>]

\* The statements of a method that change an object: an assignment or an
\* augmented assignment to a subscript, and a call of append, extend or sort
\* (the methods call no other mutating method and assign no attribute).  target is the name the statement reaches the object
\* through, lines are the statements, created is the line where the method
\* binds the name and bound is what it binds it to.
AdvancedStores ==
    <<
       [function |-> "extract_text_from_pdf",
        target |-> "extraction_metadata", created |-> 233, bound |-> "dict display",
        lines |-> << 246, 249, 260, 261, 268, 273, 276, 293, 294, 301, 306,
                     309, 317, 318, 325, 330, 344, 345, 352, 355 >>],
       [function |-> "preprocess_text",
        target |-> "preprocessing_info", created |-> 361, bound |-> "dict display",
        lines |-> <<380, 400, 406, 407, 413, 414, 430>>],
       [function |-> "preprocess_text",
        target |-> "cleaned_lines", created |-> 389, bound |-> "list display",
        lines |-> <<397>>],
       [function |-> "extract_comprehensive_skills",
        target |-> "skills_analysis", created |-> 439, bound |-> "dict display",
        lines |-> << 457, 480, 490, 495, 499, 505, 510, 518, 519, 520, 521,
                     522 >>],
       [function |-> "extract_comprehensive_skills",
        target |-> "found_skills", created |-> 460, bound |-> "list display",
        lines |-> <<476>>],
       [function |-> "extract_comprehensive_skills",
        target |-> "contexts", created |-> 483, bound |-> "list display",
        lines |-> <<488>>],
       [function |-> "extract_comprehensive_skills",
        target |-> "all_technical", created |-> 513, bound |-> "list display",
        lines |-> <<516>>],
       [function |-> "get_skills_by_category",
        target |-> "skills", created |-> 528, bound |-> "list display",
        lines |-> <<531>>],
       [function |-> "determine_experience_level",
        target |-> "experience_analysis", created |-> 595, bound |-> "dict display",
        lines |-> << 622, 653, 660, 665, 674, 676, 679, 681, 684, 686, 691,
                     698, 703, 705 >>],
       [function |-> "determine_experience_level",
        target |-> "confidence_factors", created |-> 671, bound |-> "list display",
        lines |-> <<675, 680, 685, 690, 693, 697, 702>>],
       [function |-> "generate_detailed_job_recommendations",
        target |-> "recommendations", created |-> 711, bound |-> "list display",
        lines |-> <<732, 737>>],
       [function |-> "determine_primary_stack",
        target |-> "stack_scores", created |-> 743, bound |-> "dict display",
        lines |-> <<756, 763, 770, 777>>],
       [function |-> "generate_software_engineer_roles",
        target |-> "roles", created |-> 783, bound |-> "list display",
        lines |-> <<793, 806, 819>>],
       [function |-> "generate_data_scientist_roles",
        target |-> "roles", created |-> 842, bound |-> "list display",
        lines |-> <<851>>],
       [function |-> "generate_devops_roles",
        target |-> "roles", created |-> 873, bound |-> "list display",
        lines |-> <<882>>],
       [function |-> "generate_frontend_roles",
        target |-> "frontend_skills", created |-> 898, bound |-> "list display",
        lines |-> <<901>>],
       [function |-> "generate_frontend_roles",
        target |-> "roles", created |-> 907, bound |-> "list display",
        lines |-> <<915>>],
       [function |-> "generate_backend_roles",
        target |-> "roles", created |-> 936, bound |-> "list display",
        lines |-> <<944>>],
       [function |-> "generate_fullstack_roles",
        target |-> "roles", created |-> 968, bound |-> "list display",
        lines |-> <<976>>],
       [function |-> "generate_mobile_roles",
        target |-> "roles", created |-> 1001, bound |-> "list display",
        lines |-> <<1009>>],
       [function |-> "generate_security_roles",
        target |-> "roles", created |-> 1032, bound |-> "list display",
        lines |-> <<1041>>],
       [function |-> "calculate_match_percentage",
        target |-> "all_user_skills", created |-> 1089, bound |-> "list display",
        lines |-> <<1094, 1096, 1097>>],
       [function |-> "generate_improvement_suggestions",
        target |-> "suggestions", created |-> 1113, bound |-> "list display",
        lines |-> <<1120, 1131, 1142, 1153, 1164, 1175, 1185, 1196>>],
       [function |-> "analyze_resume_structure",
        target |-> "structure", created |-> 1209, bound |-> "dict display",
        lines |-> << 1223, 1224, 1227, 1228, 1231, 1232, 1235, 1236, 1239,
                     1240, 1245, 1247, 1249 >>],
       [function |-> "generate_interview_questions",
        target |-> "questions", created |-> 1292, bound |-> "list display",
        lines |-> <<1298, 1308, 1326, 1352, 1371, 1390, 1399>>],
       [function |-> "calculate_overall_score",
        target |-> "score_breakdown", created |-> 1411, bound |-> "dict display",
        lines |-> << 1429, 1430, 1432, 1433, 1435, 1437, 1438, 1450, 1455,
                     1464, 1466, 1468, 1472, 1473, 1475, 1476, 1483, 1487,
                     1492, 1494, 1498, 1500, 1502, 1504, 1505, 1514, 1518,
                     1520, 1522, 1524, 1526, 1528, 1530, 1532, 1534 >>] >>

RealtimeStores ==
    <<
       [function |-> "extract_text_realtime",
        target |-> "extraction_info", created |-> 166, bound |-> "dict display",
        lines |-> << 179, 191, 192, 193, 194, 203, 212, 213, 214, 215, 224,
                     232, 233, 234, 235, 241 >>],
       [function |-> "extract_skills_realtime",
        target |-> "contexts", created |-> 283, bound |-> "list display",
        lines |-> <<296>>],
       [function |-> "extract_skills_realtime",
        target |-> "category_skills", created |-> 278, bound |-> "list display",
        lines |-> <<300>>],
       [function |-> "extract_skills_realtime",
        target |-> "skills_found", created |-> 262, bound |-> "dict display",
        lines |-> <<304, 305, 307, 310>>],
       [function |-> "analyze_experience_realtime",
        target |-> "experience_analysis", created |-> 338, bound |-> "dict display",
        lines |-> << 356, 365, 372, 385, 391, 392, 394, 395, 397, 398, 402,
                     405, 407 >>],
       [function |-> "generate_job_matches_realtime",
        target |-> "role_scores", created |-> 416, bound |-> "dict display",
        lines |-> <<420, 427, 434, 438, 442, 449>>],
       [function |-> "generate_job_matches_realtime",
        target |-> "matches", created |-> 413, bound |-> "list display",
        lines |-> <<465>>],
       [function |-> "calculate_resume_score_realtime",
        target |-> "score_breakdown", created |-> 530, bound |-> "dict display",
        lines |-> << 542, 545, 547, 549, 563, 571, 578, 595, 603, 607, 609,
                     611, 613, 615, 617, 619, 621 >>],
       [function |-> "generate_improvement_suggestions_realtime",
        target |-> "suggestions", created |-> 627, bound |-> "list display",
        lines |-> <<631, 639, 647, 656, 665>>] >>

\* the methods a stage of analyze_resume runs: the stage and the methods it
\* calls on self
AdvancedMethods ==
    [extract_text_from_pdf |->
        {"extract_text_from_pdf"},
     preprocess_text |->
        {"preprocess_text"},
     extract_comprehensive_skills |->
        {"extract_comprehensive_skills",
         "extract_skill_experience",
         "format_skill_name",
         "get_skills_by_category"},
     determine_experience_level |->
        {"determine_experience_level"},
     generate_detailed_job_recommendations |->
        {"generate_detailed_job_recommendations",
         "determine_primary_stack",
         "generate_backend_roles",
         "generate_data_scientist_roles",
         "generate_devops_roles",
         "generate_frontend_roles",
         "generate_fullstack_roles",
         "generate_mobile_roles",
         "generate_security_roles",
         "generate_software_engineer_roles",
         "calculate_match_percentage",
         "get_salary_range",
         "get_skills_by_category"},
     generate_improvement_suggestions |->
        {"generate_improvement_suggestions",
         "analyze_resume_structure",
         "get_skills_by_category",
         "has_portfolio_links",
         "has_quantifiable_achievements"},
     generate_interview_questions |->
        {"generate_interview_questions",
         "get_skills_by_category"},
     calculate_overall_score |->
        {"calculate_overall_score",
         "analyze_resume_structure",
         "has_portfolio_links",
         "has_quantifiable_achievements"}]

\* the same for analyze_resume_realtime
RealtimeMethods ==
    [extract_text_realtime |->
        {"extract_text_realtime"},
     clean_text_fast |->
        {"clean_text_fast"},
     extract_skills_realtime |->
        {"extract_skills_realtime",
         "format_skill_name"},
     analyze_experience_realtime |->
        {"analyze_experience_realtime"},
     generate_job_matches_realtime |->
        {"generate_job_matches_realtime",
         "format_job_title",
         "get_role_required_skills"},
     calculate_resume_score_realtime |->
        {"calculate_resume_score_realtime"},
     generate_improvement_suggestions_realtime |->
        {"generate_improvement_suggestions_realtime"}]

\* an object as a call can find it: what its constructor built, and the
\* statements that have changed it since
TableObject(contents) == [built |-> contents, stores |-> <<>>]

\* __init__: advanced_resume_analyzer.py lines 98-229,
\* realtime_resume_analyzer.py lines 69-162
ConstructorTables(an) ==
    IF an = "advanced"
    THEN [skill_database |-> TableObject(SkillDatabase),
          soft_skills |-> TableObject(SoftSkills),
          certifications |-> TableObject(Certifications),
          job_market_data |-> TableObject(JobMarketData)]
    ELSE [skill_patterns |-> TableObject(SkillPatterns),
          experience_indicators |-> TableObject(ExperienceIndicators),
          job_role_patterns |-> TableObject(JobRolePatterns)]

\* A variant in which extract_comprehensive_skills starts found_skills
\* (line 460) from the list of soft skills instead of a new list.
ObjectOfSharingSoftSkills(store) ==
    IF store.function = "extract_comprehensive_skills"
          /\ store.target = "found_skills"
    THEN "soft_skills"
    ELSE "new"

\* The object a changing statement reaches: a name bound to a display holds
\* an object made by the call, any other binding would name the table it
\* takes the object from.
ObjectOf(store) ==
    IF store.bound \in {"dict display", "list display"}
    THEN "new"
    ELSE store.bound

FirstStage ==
    [advanced |-> "extract_text_from_pdf", realtime |-> "extract_text_realtime"]

StoresOf(an) == IF an = "advanced" THEN AdvancedStores ELSE RealtimeStores

MethodsOf(an, stage) ==
    IF an = "advanced" THEN AdvancedMethods[stage] ELSE RealtimeMethods[stage]

\* the changing statements of a stage that reach the table `name`
StoresReaching(an, stage, name) ==
    SelectSeq(StoresOf(an),
              LAMBDA store : /\ store.function \in MethodsOf(an, stage)
                             /\ ObjectOf(store) = name)

RECURSIVE LinesOf(_)
LinesOf(stores) ==
    IF stores = <<>> THEN <<>>
    ELSE Head(stores).lines \o LinesOf(Tail(stores))

\* the tables after a stage has run
TablesAfter(an, stage, tabs) ==
    [name \in DOMAIN tabs |->
        [tabs[name] EXCEPT
            !.stores = @ \o LinesOf(StoresReaching(an, stage, name))]]

StageAfter(an, stage) ==
    LET rest == Stages[an]
        at == CHOOSE i \in 0..Len(rest) :
                  IF i = 0 THEN stage = FirstStage[an] ELSE rest[i] = stage
    IN  IF at = Len(rest) THEN "idle" ELSE rest[at + 1]

CallsStarted ==
    Cardinality({i \in 1..Len(invoked) : invoked[i] = FirstStage[analyzer]})

InitTables ==
    /\ analyzer \in {"advanced", "realtime"}
    /\ pc = "idle"
    /\ text = <<>>
    /\ extraction_metadata = NewMetadata
    /\ extraction_info = NewInfo
    /\ extracted_text = <<>>
    /\ attempts = <<>>
    /\ raw_words = 0
    /\ invoked = <<>>
    /\ score_in = Idle /\ score_breakdown = Idle
    /\ skill_text = Idle /\ skills_analysis = Idle /\ match_counts = Idle
    /\ rec_in = Idle /\ recommendations = Idle /\ warnings = Idle
    /\ exp_in = Idle /\ exp_analysis = Idle
    /\ sug_in = Idle /\ suggestions = Idle
    /\ now = Idle /\ call = Idle /\ reports = Idle
    /\ reference_tables = ConstructorTables(analyzer)

TablesFrame ==
    UNCHANGED <<analyzer, text, extraction_metadata, extraction_info,
                extracted_text, attempts, raw_words, scoreVars, skillVars,
                recVars, stageVars, now, call, reports>>

\* analyze_resume and analyze_resume_realtime are entered: the first stage
\* is the extraction
EnterCall ==
    /\ pc = "idle"
    /\ CallsStarted < MaxCalls
    /\ pc' = FirstStage[analyzer]
    /\ UNCHANGED <<invoked, reference_tables>>
    /\ TablesFrame

\* A stage runs to its end.  The extraction is followed by the length test
\* (advanced line 1549, realtime line 682), which ends the call when too
\* little text came out.
TableStage ==
    /\ pc # "idle"
    /\ invoked' = Append(invoked, pc)
    /\ reference_tables' = TablesAfter(analyzer, pc, reference_tables)
    /\ \E enough \in BOOLEAN :
          pc' = IF pc = FirstStage[analyzer] /\ ~enough
                THEN "idle"
                ELSE StageAfter(analyzer, pc)
    /\ TablesFrame

NextTables == EnterCall \/ TableStage

SpecTables == InitTables /\ [][NextTables]_vars

\* C16: whatever calls an instance has served, and wherever a call stands,
\* the recognition and reference tables of the instance are what the
\* constructor built: no stage changes a table.
C16_TablesUnchanged == reference_tables = ConstructorTables(analyzer)

LastStage(an) == Stages[an][Len(Stages[an])]

\* two calls have run every stage and a third is past its skills stage
C16_Witness ==
    /\ Cardinality({i \in 1..Len(invoked) :
                       invoked[i] = LastStage(analyzer)}) = 2
    /\ CallsStarted = 3
    /\ invoked[Len(invoked)] \in
          {"extract_comprehensive_skills", "extract_skills_realtime"}

(***************************************************************************)
(* SpecScenario: the skills, experience and recommendation stages of the   *)
(* advanced analyzer on the texts of one resume: a job title, a length of  *)
(* experience, a leadership sentence and a list of four skills, in any     *)
(* order and with either spelling of the verb.                             *)
(***************************************************************************)
ScenarioTitle == <<"S", "e", "n", "i", "o", "r", " ", "S", "o", "f", "t", "w", "a", "r", "e", " ", "E", "n", "g", "i", "n", "e", "e", "r">>
ScenarioYears == <<"8", "+", " ", "y", "e", "a", "r", "s">>
ScenarioLed(verb) == verb \o <<" ", "t", "e", "a", "m", " ", "o", "f", " ", "5">>
ScenarioSkills == <<"A", "W", "S", ",", " ", "D", "o", "c", "k", "e", "r", ",", " ", "P", "y", "t", "h", "o", "n", ",", " ", "R", "e", "a", "c", "t">>

ScenarioVerbs == {<<"l", "e", "d">>, <<"L", "e", "d">>}

Orders(n) == { o \in [1..n -> 1..n] : \A i, j \in 1..n : o[i] = o[j] => i = j }

ScenarioTexts ==
    { LET parts == <<ScenarioTitle, ScenarioYears, ScenarioLed(verb),
                     ScenarioSkills>>
      IN JoinWords([i \in 1..4 |-> parts[o[i]]]) :
        o \in Orders(4), verb \in ScenarioVerbs }

\* the locals of analyze_resume after line 1549, for a document of one
\* page with the text txt that passed the length test
ValidatedCall(txt) ==
    LET r == ExtractTextFromPdf([pages |-> <<txt>>, raw_words |-> 0,
                                 raw_text |-> <<>>])
    IN [NewCall(txt, "", 0) EXCEPT !.extracted_text = r.text,
                                   !.extraction_metadata = r.metadata]

\* the locals of analyze_resume after line 1556
PreprocessedCall(txt) ==
    LET c == ValidatedCall(txt)
        r == PreprocessText(c.extracted_text)
    IN [c EXCEPT !.cleaned_text = r.cleaned_text,
                 !.preprocessing_info = r.preprocessing_info]

InitScenario ==
    /\ analyzer = "advanced"
    /\ pc = "extract_comprehensive_skills"
    /\ text = <<>>
    /\ extraction_metadata = NewMetadata
    /\ extraction_info = NewInfo
    /\ extracted_text = <<>>
    /\ attempts = <<>>
    /\ raw_words = 0
    /\ invoked = <<>>
    /\ score_in = Idle /\ score_breakdown = Idle
    /\ skill_text = Idle /\ skills_analysis = Idle /\ match_counts = Idle
    /\ rec_in = Idle /\ recommendations = Idle /\ warnings = Idle
    /\ exp_in = Idle /\ exp_analysis = Idle
    /\ sug_in = Idle /\ suggestions = Idle
    /\ now = 0
    /\ \E txt \in ScenarioTexts : call = PreprocessedCall(txt)
    /\ reports = <<>>
    /\ reference_tables = Idle

NextScenario == PipeSkills \/ PipeExperience \/ PipeRecommendations

SpecScenario == InitScenario /\ [][NextScenario]_vars

\* every name under a category of technical_skills, in any subcategory
AllTechnicalNames(technical_skills) ==
    UNION { Elements(GetSkillsByCategory(technical_skills, c)) :
              c \in DOMAIN technical_skills }

\* the text names the title, the years and the leadership of the scenario
\* and the four skills are the technical skills found in it
IsScenario(c) ==
    /\ Contains(ToLower(ScenarioTitle), ToLower(c.cleaned_text))
    /\ Contains(<<"8", "+", " ", "y", "e", "a", "r", "s">>, ToLower(c.cleaned_text))
    /\ Contains(<<"l", "e", "d", " ", "t", "e", "a", "m", " ", "o", "f", " ", "5">>, ToLower(c.cleaned_text))
    /\ AllTechnicalNames(c.skills_analysis.technical_skills) =
          {<<"A", "W", "S">>, <<"D", "o", "c", "k", "e", "r">>, <<"P", "y", "t", "h", "o", "n">>, <<"R", "e", "a", "c", "t">>}

\* C17: on a normalized text with 'Senior Software Engineer', '8+ years',
\* 'led team of 5' and the skills AWS, Docker, Python and React, the three
\* stages give the level senior, AWS under cloud_platforms, Python under
\* programming_languages, the leadership indicator 'Led team of 5' and a
\* non-empty recommendation list whose first entry is of category
\* 'Software Engineering' or 'DevOps/Infrastructure'.
C17_SeniorScenario ==
    (pc = "generate_improvement_suggestions" /\ IsScenario(call)) =>
        /\ call.experience_analysis.level = "senior"
        /\ <<"A", "W", "S">> \in Elements(GetSkillsByCategory(
                         call.skills_analysis.technical_skills,
                         "cloud_platforms"))
        /\ <<"P", "y", "t", "h", "o", "n">> \in Elements(GetSkillsByCategory(
                         call.skills_analysis.technical_skills,
                         "programming_languages"))
        /\ <<"L", "e", "d", " ", "t", "e", "a", "m", " ", "o", "f", " ", "5">> \in Elements(call.experience_analysis.leadership_indicators)
        /\ call.job_recommendations # <<>>
        /\ call.job_recommendations[1].category \in
              {"Software Engineering", "DevOps/Infrastructure"}

\* the three stages have run on a text that starts with the lower-case
\* leadership sentence and ends with the title; the list is headed by the
\* DevOps role at 75, ahead of the frontend role with the same match
C17_Witness ==
    /\ pc = "generate_improvement_suggestions"
    /\ IsScenario(call)
    /\ SubSeq(call.cleaned_text, 1, 3) = <<"l", "e", "d">>
    /\ call.job_recommendations[1].category = "DevOps/Infrastructure"
    /\ call.job_recommendations[1].match_percentage = 75
    /\ call.job_recommendations[2].match_percentage = 75
    /\ call.job_recommendations[2].category = "Frontend Development"

(***************************************************************************)
(* SpecPlain: the stages of analyze_resume after the length test, on       *)
(* resumes that name no skill, soft skill or certification of the tables:  *)
(* one sentence, followed by any of five more about years, a team, a       *)
(* school, a result and a title.                                           *)
(***************************************************************************)
PlainSentence ==
    <<"F", "r", "i", "e", "n", "d", "l", "y", " ", "b", "a", "k", "e", "r", " ", "w", "h", "o", " ", "e", "n", "j", "o", "y", "s", " ", "l", "o", "n", "g", " ", "w", "a", "l", "k", "s", " ", "a", "n", "d", " ", "g", "a", "r", "d", "e", "n", "i", "n", "g", " ", "e", "v", "e", "r", "y", " ", "d", "a", "y", ".">>

PlainOptions ==
    << <<"5", " ", "y", "e", "a", "r", "s", " ", "o", "f", " ", "e", "x", "p", "e", "r", "i", "e", "n", "c", "e", " ", "a", "t", " ", "t", "h", "e", " ", "v", "i", "l", "l", "a", "g", "e", " ", "b", "a", "k", "e", "r", "y", ".">>,
       <<"L", "e", "d", " ", "t", "e", "a", "m", " ", "o", "f", " ", "3", " ", "b", "a", "k", "e", "r", "s", ".">>,
       <<"E", "d", "u", "c", "a", "t", "i", "o", "n", ":", " ", "e", "v", "e", "n", "i", "n", "g", " ", "s", "c", "h", "o", "o", "l", ".">>,
       <<"R", "a", "i", "s", "e", "d", " ", "s", "a", "l", "e", "s", " ", "b", "y", " ", "2", "0", "%", ".">>,
       <<"S", "e", "n", "i", "o", "r", " ", "b", "a", "k", "e", "r", ".">> >>

PlainTexts ==
    { LET chosen == SelectSeq(<<1, 2, 3, 4, 5>>, LAMBDA i : i \in picked)
      IN JoinWords(<<PlainSentence>> \o
                   [k \in 1..Len(chosen) |-> PlainOptions[chosen[k]]]) :
        picked \in SUBSET (1..5) }

\* variant: line 668 takes the maximum without looking at the list
MaxTakenAlways(years_found) == TRUE

\* line 668, max(years_found) if years_found else 0: the maximum is taken
\* when the list is not empty
MaxTaken(years_found) == years_found # <<>>

\* A stage raises when an operation outside a try block is applied to a
\* value it is not defined on.  max() of an empty list (line 668) is the
\* one such operation that depends on the text: the int() calls of lines
\* 548, 621 and 652 and the generators with the division of line 1107 run
\* inside try blocks, the max() of line 779 is over a dict literal of five
\* keys, and every subscript is a key of a dict literal or is tested first
\* (line 529).
Raises(stage, c) ==
    /\ stage = "determine_experience_level"
    /\ LET years_found ==
               DetermineExperienceLevel(c.cleaned_text,
                                        c.skills_analysis).years_found
       IN MaxTaken(years_found) /\ years_found = <<>>

InitPlain ==
    /\ analyzer = "advanced"
    /\ pc = "preprocess_text"
    /\ text = <<>>
    /\ extraction_metadata = NewMetadata
    /\ extraction_info = NewInfo
    /\ extracted_text = <<>>
    /\ attempts = <<>>
    /\ raw_words = 0
    /\ invoked = <<>>
    /\ score_in = Idle /\ score_breakdown = Idle
    /\ skill_text = Idle /\ skills_analysis = Idle /\ match_counts = Idle
    /\ rec_in = Idle /\ recommendations = Idle /\ warnings = Idle
    /\ exp_in = Idle /\ exp_analysis = Idle
    /\ sug_in = Idle /\ suggestions = Idle
    /\ now = 0
    /\ \E txt \in PlainTexts :
          /\ call = ValidatedCall(txt)
          /\ Len(StripChars(call.extracted_text)) >= MinMeaningfulText
    /\ reports = <<>>
    /\ reference_tables = Idle

\* One stage of lines 1554-1583.  An exception leaves the try block for
\* the handler of lines 1638-1641, which logs it and raises it again.
PlainStage ==
    IF Raises(pc, call)
    THEN /\ pc \in StageSet("advanced")
         /\ pc' = "raise"
         /\ UNCHANGED <<now, call, reports>>
         /\ PipelineFrame
    ELSE \/ PipePreprocess \/ PipeSkills \/ PipeExperience
         \/ PipeRecommendations \/ PipeSuggestions \/ PipeQuestions
         \/ PipeScore

NextPlain == PlainStage

SpecPlain == InitPlain /\ [][NextPlain]_vars

\* the call is past extract_comprehensive_skills
SkillsBound ==
    pc \in {"determine_experience_level",
            "generate_detailed_job_recommendations",
            "generate_improvement_suggestions",
            "generate_interview_questions", "calculate_overall_score",
            "compile", "raise"}

\* no keyword of the tables matched
NoKeywordMatched(sa) ==
    /\ TotalSkills(sa.technical_skills) = 0
    /\ sa.soft_skills = <<>>
    /\ sa.certifications = <<>>

\* C18: on a text in which no technical skill, soft skill or certification
\* of the tables matches, no stage after the length test raises, and
\* calculate_overall_score returns technical_skills = 10, a total_score
\* that is not negative and one of the nine grades of the ladder.
C18_NoKeywordStillScored ==
    (SkillsBound /\ NoKeywordMatched(call.skills_analysis)) =>
        /\ pc # "raise"
        /\ pc = "compile" =>
              /\ call.score_analysis.technical_skills = 10
              /\ call.score_analysis.total_score >= 0
              /\ call.score_analysis.grade \in Elements(GradeLadder)

\* every stage has run on a text without keyword, years or leadership
\* sentence: the score is 10 for the skills and the grade the lowest
C18_Witness ==
    /\ pc = "compile"
    /\ NoKeywordMatched(call.skills_analysis)
    /\ call.experience_analysis.years_found = <<>>
    /\ call.experience_analysis.leadership_indicators = <<>>
    /\ call.job_recommendations # <<>>
    /\ call.score_analysis.technical_skills = 10
    /\ call.score_analysis.grade = "C-"

(***************************************************************************)
(* The role generators, one by one                                         *)
(***************************************************************************)
\* what generator g of role_generators gave in the call that returned
GeneratedBy(g) ==
    Generate(RoleGenerators[g], rec_in.skills_analysis,
             rec_in.experience_analysis.level,
             DeterminePrimaryStack(rec_in.skills_analysis))

\* the skills analysis holds every key and no skill at all
NoSignal(sa) ==
    /\ ReadKeys \subseteq DOMAIN sa
    /\ TotalSkills(sa.technical_skills) = 0
    /\ sa.soft_skills = <<>>
    /\ sa.certifications = <<>>

\* C21: each of the eight role generators returns at most one role, and for
\* a skills analysis without any technical skill, soft skill or
\* certification every generator returns [] and
\* generate_detailed_job_recommendations returns the empty list.
C21_NoSignalNoRole ==
    RecsReturned =>
        /\ \A g \in 1..Len(RoleGenerators) : Len(GeneratedBy(g).roles) <= 1
        /\ NoSignal(rec_in.skills_analysis) =>
              /\ \A g \in 1..Len(RoleGenerators) : GeneratedBy(g).roles = <<>>
              /\ recommendations = <<>>

\* the first half alone
AtMostOneRoleEach ==
    RecsReturned =>
        \A g \in 1..Len(RoleGenerators) : Len(GeneratedBy(g).roles) <= 1

\* the generators other than the software engineer one give nothing
OnlySoftwareEngineerWithoutSignal ==
    (RecsReturned /\ NoSignal(rec_in.skills_analysis)) =>
        /\ \A g \in 2..Len(RoleGenerators) : GeneratedBy(g).roles = <<>>
        /\ Len(recommendations) = 1
        /\ recommendations[1].match_percentage = 65

(***************************************************************************)
(* SpecMatch: calculate_match_percentage on the skills analyses of a few   *)
(* pool skills and on every list of up to MaxRequired required skills.     *)
(* The returned float is held exactly, as a fraction.                      *)
(***************************************************************************)
MaxRequired == 3

\* required skills as the generators write them: one that equals a user
\* skill but for its case, one that is part of a user skill ('sql' in
\* 'mysql'), a soft skill and one nobody has
RequiredVocabulary ==
    { <<"P", "y", "t", "h", "o", "n">>, <<"S", "Q", "L">>,
      <<"l", "e", "a", "d", "e", "r", "s", "h", "i", "p">>,
      <<"a", "r", "c", "h", "i", "t", "e", "c", "t", "u", "r", "e">> }

RequiredLists ==
    UNION { [1..n -> RequiredVocabulary] : n \in 1..MaxRequired }

\* python, mysql and docker of the SkillPool
MatchPool == {1, 5, 6}

MatchAnalyses ==
    { PoolAnalysis(PoolTechnicalSkills(chosen), soft, <<>>) :
        chosen \in SUBSET MatchPool, soft \in SoftSkillPool }

\* variant: the bonus is 35 for a full match, without the cap
MatchPercentageUncapped(matches, required) ==
    [num |-> 65 * required + matches * 35, den |-> required]

\* lines 1106-1109: 65 + (matches / len(required_skills)) * 30, at most 95,
\* as the fraction num / den
MatchPercentage(matches, required) ==
    [num |-> Min(65 * required + matches * 30, 95 * required),
     den |-> required]

\* lines 1089-1109 for a non-empty list: the locals at the return
MatchLocals(sa, required_skills) ==
    LET all_user_skills == AllUserSkills(sa)
        matches == Cardinality({ i \in 1..Len(required_skills) :
                      \E user_skill \in all_user_skills :
                         Contains(ToLower(required_skills[i]), user_skill) })
    IN [skills_analysis |-> sa, required_skills |-> required_skills,
        matches |-> matches,
        returned |-> MatchPercentage(matches, Len(required_skills))]

InitMatch ==
    /\ analyzer = "advanced"
    /\ pc = "match_call"
    /\ text = <<>>
    /\ extraction_metadata = NewMetadata
    /\ extraction_info = NewInfo
    /\ extracted_text = <<>>
    /\ attempts = <<>>
    /\ raw_words = 0
    /\ invoked = <<>>
    /\ score_in = Idle /\ score_breakdown = Idle
    /\ skill_text = Idle /\ skills_analysis = Idle /\ match_counts = Idle
    /\ rec_in = Idle /\ recommendations = Idle /\ warnings = Idle
    /\ exp_in = Idle /\ exp_analysis = Idle
    /\ sug_in = Idle /\ suggestions = Idle
    /\ now = Idle
    /\ \E sa \in MatchAnalyses, required_skills \in RequiredLists :
          call = [skills_analysis |-> sa, required_skills |-> required_skills,
                  matches |-> 0, returned |-> Unbound]
    /\ reports = Idle
    /\ reference_tables = Idle

MatchCall ==
    /\ pc = "match_call"
    /\ call' = MatchLocals(call.skills_analysis, call.required_skills)
    /\ pc' = "match_returned"
    /\ UNCHANGED <<now, reports>>
    /\ PipelineFrame

NextMatch == MatchCall

SpecMatch == InitMatch /\ [][NextMatch]_vars

\* the required skills that are part of a skill of the candidate, in lower
\* case, each position of the list counted
RequiredFound(sa, required_skills) ==
    Cardinality({ i \in 1..Len(required_skills) :
        \E skill \in AllTechnicalNames(sa.technical_skills)
                       \cup Elements(sa.soft_skills)
                       \cup Elements(sa.certifications) :
           Contains(ToLower(required_skills[i]), ToLower(skill)) })

\* C22: for a non-empty list of required skills, calculate_match_percentage
\* returns min(65 + 30 * matched / total, 95), matched being the number of
\* required skills found among the skills of the candidate; the value lies
\* in [65, 95], is 65 when none is found and 95 when all are.
C22_MatchPercentageFormula ==
    pc = "match_returned" =>
        LET total == Len(call.required_skills)
            matched == RequiredFound(call.skills_analysis, call.required_skills)
            r == call.returned
        IN /\ r.den = total
           /\ r.num = Min(65 * total + 30 * matched, 95 * total)
           /\ 65 * r.den <= r.num /\ r.num <= 95 * r.den
           /\ matched = 0 => r.num = 65 * r.den
           /\ matched = total => r.num = 95 * r.den

\* one of three required skills is found, as a part of 'mysql': 75
C22_Witness ==
    /\ pc = "match_returned"
    /\ Len(call.required_skills) = 3
    /\ call.matches = 1
    /\ call.required_skills[2] = <<"S", "Q", "L">>
    /\ <<"m", "y", "s", "q", "l">> \in AllUserSkills(call.skills_analysis)
    /\ call.returned = [num |-> 225, den |-> 3]

\* every match_percentage of a recommendation list lies in [65, 95]
RecommendedMatchesInRange ==
    RecsReturned =>
        \A i \in 1..Len(recommendations) :
            /\ recommendations[i].match_percentage >= 65
            /\ recommendations[i].match_percentage <= 95

(***************************************************************************)
(* SpecPreprocess: preprocess_text on the strings of up to MaxTokens       *)
(* pieces: letters, punctuation the character class keeps, a character it  *)
(* blanks, spaces, newlines and a page marker.                             *)
(***************************************************************************)
MaxTokens == 3

PreprocessTokens ==
    { <<"a", "b", "c">>, <<"a">>, <<".", ".", ".", ".", ".", ".", ".">>,
      <<" ">>, <<"\n">>, <<"#">>,
      <<"-", "-", "-", " ", "P", "a", "g", "e", " ", "1", " ", "-", "-", "-">> }

PreprocessInputs ==
    { Flatten(tokens) :
        tokens \in UNION { [1..n -> PreprocessTokens] : n \in 0..MaxTokens } }

\* lines 373-391: the one line the loop of line 390 sees, stripped
StrippedLine(txt) ==
    StripChars(RemoveMarkers("table",
                   RemoveMarkers("page",
                       BlankOtherCharacters(NormalizeWhitespace(txt)), 1), 1))

\* the locals of preprocess_text at its return
PreprocessLocals(txt) ==
    LET r == PreprocessText(txt)
    IN [text |-> txt, line |-> StrippedLine(txt),
        cleaned_text |-> r.cleaned_text,
        preprocessing_info |-> r.preprocessing_info]

InitPreprocess ==
    /\ analyzer = "advanced"
    /\ pc = "preprocess_call"
    /\ text = <<>>
    /\ extraction_metadata = NewMetadata
    /\ extraction_info = NewInfo
    /\ extracted_text = <<>>
    /\ attempts = <<>>
    /\ raw_words = 0
    /\ invoked = <<>>
    /\ score_in = Idle /\ score_breakdown = Idle
    /\ skill_text = Idle /\ skills_analysis = Idle /\ match_counts = Idle
    /\ rec_in = Idle /\ recommendations = Idle /\ warnings = Idle
    /\ exp_in = Idle /\ exp_analysis = Idle
    /\ sug_in = Idle /\ suggestions = Idle
    /\ now = Idle
    /\ \E txt \in PreprocessInputs :
          call = [text |-> txt, line |-> <<>>, cleaned_text |-> <<>>,
                  preprocessing_info |-> Unbound]
    /\ reports = Idle
    /\ reference_tables = Idle

PreprocessCall ==
    /\ pc = "preprocess_call"
    /\ call' = PreprocessLocals(call.text)
    /\ pc' = "preprocess_returned"
    /\ UNCHANGED <<now, reports>>
    /\ PipelineFrame

NextPreprocess == PreprocessCall

SpecPreprocess == InitPreprocess /\ [][NextPreprocess]_vars

PreprocessReturned == pc = "preprocess_returned"

\* C23: the cleaned_text preprocess_text returns is no longer than its
\* input, and so is the text after each of its steps: cleaned_length is at
\* most original_length.
C23_CleanedNoLonger ==
    PreprocessReturned =>
        /\ Len(call.cleaned_text) <= Len(call.text)
        /\ call.preprocessing_info.cleaned_length
              <= call.preprocessing_info.original_length
        /\ Len(NormalizeWhitespace(call.text)) <= Len(call.text)
        /\ Len(call.line) <= Len(NormalizeWhitespace(call.text))

\* a text with letters, a newline and a page marker comes back shorter and
\* not empty
C23_Witness ==
    /\ PreprocessReturned
    /\ Contains(<<"-", "-", "-", " ", "P", "a", "g", "e", " ", "1", " ", "-", "-", "-">>, call.text)
    /\ Contains(<<"\n">>, call.text)
    /\ call.cleaned_text # <<>>
    /\ Len(call.cleaned_text) < Len(call.text) - 14

\* the letters and digits of a line
AlphanumericCount(line) ==
    Len(SelectSeq(line, LAMBDA c : IsLetter(c) \/ c \in DigitChars))

\* C27: a line is dropped exactly when its trimmed length is at most 2 or
\* less than 30% of its characters are alphanumeric; a longer line with 30%
\* or more is kept.
C27_DroppedIffShortOrBelowThirtyPercent ==
    PreprocessReturned =>
        ((call.cleaned_text = <<>>) <=>
            \/ Len(call.line) <= 2
            \/ 10 * AlphanumericCount(call.line) < 3 * Len(call.line))

\* what the loop of lines 390-397 does: a line is kept when it is longer
\* than 2 and more than 30% of it are word characters or whitespace
LineKeptAsCoded ==
    PreprocessReturned =>
        /\ call.cleaned_text = IF KeepsLine(call.line) THEN call.line ELSE <<>>
        /\ (Len(call.line) > 2
            /\ 10 * AlphanumericCount(call.line) > 3 * Len(call.line))
              => call.cleaned_text = call.line

DataSciencePool ==
    << [category |-> "programming_languages", subcategory |-> "python",
        skill |-> <<"p", "y", "t", "h", "o", "n">>],
       [category |-> "programming_languages", subcategory |-> "javascript",
        skill |-> <<"j", "a", "v", "a", "s", "c", "r", "i", "p", "t">>],
       [category |-> "programming_languages", subcategory |-> "java",
        skill |-> <<"j", "a", "v", "a">>],
       [category |-> "programming_languages", subcategory |-> "r",
        skill |-> <<"r", " ", "p", "r", "o", "g", "r", "a", "m", "m", "i", "n", "g">>],
       [category |-> "data_science", subcategory |-> "visualization",
        skill |-> <<"p", "l", "o", "t", "l", "y">>],
       [category |-> "data_science", subcategory |-> "big_data",
        skill |-> <<"s", "p", "a", "r", "k">>] >>

\* technical_skills[category] for the chosen skills of the pool
DataScienceEntry(c, chosen) ==
    LET subs == SkillDatabase[c].subcategories
        Picked(s) == { i \in chosen :
                         /\ DataSciencePool[i].category = SkillDatabase[c].category
                         /\ DataSciencePool[i].subcategory = subs[s].subcategory }
        order == SelectSeq(Indices(Len(subs)), LAMBDA s : Picked(s) # {})
    IN [found |->
            [name \in { subs[order[i]].subcategory : i \in 1..Len(order) } |->
                LET s == CHOOSE s \in 1..Len(subs) : subs[s].subcategory = name
                IN << FormatSkillName(
                        DataSciencePool[CHOOSE i \in Picked(s) : TRUE].skill) >>],
        order |-> [i \in 1..Len(order) |-> subs[order[i]].subcategory]]

DataScienceTechnicalSkills(chosen) ==
    [category \in { SkillDatabase[c].category : c \in 1..Len(SkillDatabase) } |->
        DataScienceEntry(CHOOSE c \in 1..Len(SkillDatabase) :
                            SkillDatabase[c].category = category, chosen)]

DataScienceInputs ==
    { [skills_analysis |->
           PoolAnalysis(DataScienceTechnicalSkills(chosen), <<>>, <<>>),
       experience_level |-> level] :
      chosen \in SUBSET (1..Len(DataSciencePool)), level \in Levels }

InitDataScience ==
    /\ analyzer = "advanced"
    /\ pc = "data_scientist_call"
    /\ text = <<>>
    /\ extraction_metadata = NewMetadata
    /\ extraction_info = NewInfo
    /\ extracted_text = <<>>
    /\ attempts = <<>>
    /\ raw_words = 0
    /\ invoked = <<>>
    /\ score_in = Idle /\ score_breakdown = Idle
    /\ skill_text = Idle /\ skills_analysis = Idle /\ match_counts = Idle
    /\ rec_in = Idle /\ recommendations = Idle /\ warnings = Idle
    /\ exp_in = Idle /\ exp_analysis = Idle
    /\ sug_in = Idle /\ suggestions = Idle
    /\ now = Idle
    /\ \E in \in DataScienceInputs :
          call = [skills_analysis |-> in.skills_analysis,
                  experience_level |-> in.experience_level,
                  returned |-> Unbound]
    /\ reports = Idle
    /\ reference_tables = Idle

\* one call of generate_data_scientist_roles (lines 833-863); primary_stack
\* is not read
DataScientistCall ==
    /\ pc = "data_scientist_call"
    /\ call' = [call EXCEPT !.returned =
                   GenerateDataScientistRoles(call.skills_analysis,
                                              call.experience_level,
                                              "general")]
    /\ pc' = "data_scientist_returned"
    /\ UNCHANGED <<now, reports>>
    /\ PipelineFrame

NextDataScience == DataScientistCall

SpecDataScience == InitDataScience /\ [][NextDataScience]_vars

\* the programming-language and data-science skills of the candidate
DataScienceSkills(sa) ==
    GetSkillsByCategory(sa.technical_skills, "programming_languages")
        \o GetSkillsByCategory(sa.technical_skills, "data_science")

\* a skill of the 'python' or of the 'r' language, or one named after them
HasPythonOrR(sa) ==
    \/ \E sub \in {"python", "r"} :
          sub \in DOMAIN sa.technical_skills["programming_languages"].found
    \/ \E skill \in Elements(DataScienceSkills(sa)) :
          \/ Contains(<<"p", "y", "t", "h", "o", "n">>, ToLower(skill))
          \/ ToLower(skill) = <<"r">>

\* C25: generate_data_scientist_roles returns a role only if the
\* programming-language or data-science skills of the candidate include a
\* Python skill or an R skill; without one the list returned is empty.
C25_DataScientistOnlyWithPythonOrR ==
    pc = "data_scientist_returned" =>
        (~HasPythonOrR(call.skills_analysis) => call.returned.roles = <<>>)

\* what the code holds to: no role unless a skill has 'python' or the letter
\* 'r' in its name, and none above the junior level
DataScientistAsCoded ==
    pc = "data_scientist_returned" =>
        /\ ~call.returned.raised
        /\ call.returned.roles # <<>> <=>
              /\ call.experience_level = "junior"
              /\ \E skill \in Elements(DataScienceSkills(call.skills_analysis)) :
                    \/ Contains(<<"p", "y", "t", "h", "o", "n">>, ToLower(skill))
                    \/ "r" \in Elements(ToLower(skill))
        /\ Len(call.returned.roles) <= 1
\* C26: the +5 length bonus of content_structure is awarded exactly when
\* the word count w of the text satisfies 200 <= w <= 600, and
\* content_structure = min(3 * section_count + bonus, 20).
C26_LengthBonusBand ==
    Scored =>
        LET w == score_in.word_count
            bonus == IF 200 <= w /\ w <= 600 THEN 5 ELSE 0
        IN score_breakdown.content_structure
               = Min(3 * score_in.section_count + bonus, 20)

\* what the code holds to: the band of the bonus is 200 <= w < 600, and a
\* text of 600 words is reported as too lengthy
LengthBonusAsCoded ==
    Scored =>
        LET w == score_in.word_count
            bonus == IF 200 <= w /\ w < 600 THEN 5 ELSE 0
        IN /\ score_breakdown.content_structure
                  = Min(3 * score_in.section_count + bonus, 20)
           /\ w >= 600 <=>
                 \E i \in 1..Len(score_breakdown.areas_for_improvement) :
                    score_breakdown.areas_for_improvement[i]
                        = "Resume may be too lengthy"
\* the strategy whose success ended the chain of the advanced or of the
\* basic analyzer, NoMethod when none did; the basic analyzer keeps no
\* metadata, its library blocks return only from their threshold test
SuccessfulStrategy ==
    IF analyzer = "advanced" THEN extraction_metadata.successful_method
    ELSE IF /\ attempts # <<>>
            /\ attempts[Len(attempts)].method \in {"pdfplumber", "pypdf2"}
            /\ pc \notin ExtractionPcs
         THEN attempts[Len(attempts)].method
         ELSE NoMethod

LibraryStrategies == {"pymupdf", "pdfplumber", "pypdf2"}

\* the threshold of a library strategy, applied to a text
OwnThreshold(m, t) ==
    IF analyzer = "advanced" THEN MeetsThreshold(m, t)
    ELSE BasicMeetsThreshold(t)

\* C28: in the chains of the advanced and of the basic analyzer the text
\* returned for the successful strategy m consists only of text produced by
\* m (nothing of an earlier strategy that missed its threshold or raised
\* part-way is carried into it), and the threshold of m was passed by the
\* output of m alone.
C28_OnlyOwnText ==
    (analyzer \in {"advanced", "basic"} /\ ExtractionReturned
        /\ SuccessfulStrategy \in LibraryStrategies) =>
        /\ \A i \in 1..Len(extracted_text) :
              extracted_text[i].src = SuccessfulStrategy
        /\ OwnThreshold(SuccessfulStrategy,
                        attempts[Len(attempts)].produced)

\* what the code holds to: the text returned by a library strategy is what
\* all the strategies tried so far produced, in their order, and the
\* threshold is tested against that concatenation
ReturnsAccumulatedText ==
    (analyzer \in {"advanced", "basic"} /\ ExtractionReturned
        /\ SuccessfulStrategy \in LibraryStrategies) =>
        /\ extracted_text = TextAfter(Len(attempts))
        /\ OwnThreshold(SuccessfulStrategy, TextAfter(Len(attempts)))

\* the realtime chain starts each strategy from an empty text
RealtimeOnlyOwnText ==
    (analyzer = "realtime" /\ ExtractionReturned
        /\ extraction_info.method \in LibraryStrategies) =>
        \A i \in 1..Len(extracted_text) :
            extracted_text[i].src = extraction_info.method
RealtimeReturned ==
    analyzer = "realtime" /\ pc \in {"returned", "returned_failure"}

\* C29: analyze_resume_realtime never raises; it returns success = True
\* with the score breakdown whenever extract_text_realtime reported success
\* and the extracted text has at least 50 characters after trimming, and
\* success = False only when the extraction failed or the text is shorter.
C29_RealtimeSucceedsOnValidatedText ==
    analyzer = "realtime" =>
        /\ pc \notin {"extract_raised", "raised_ValueError"}
        /\ RealtimeReturned =>
              (pc = "returned"
                  <=> ~TooShort("realtime", extracted_text, extraction_info))

\* what the code holds to: the call never raises, and it never returns
\* success = True, since the result dict cannot be built
RealtimeNeverRaisesNeverSucceeds ==
    analyzer = "realtime" =>
        /\ pc \notin {"extract_raised", "raised_ValueError", "returned"}
        /\ (RealtimeReturned
               /\ ~TooShort("realtime", extracted_text, extraction_info)) =>
              invoked = Stages["realtime"]
(***************************************************************************)
(* analyze_resume on pages that are sparse in letters: contents lines with *)
(* dot leaders, a rule of dashes, and two lines of prose, one to           *)
(* MaxSparseLines of them to a page.                                       *)
(***************************************************************************)
MaxSparseLines == 2

SparseLines ==
    << <<"S", "k", "i", "l", "l", "s", " ", ".", ".", ".", ".", ".", ".", ".", ".", ".", ".", ".", ".", ".", ".", ".", ".", ".", ".", ".", ".", ".", ".", ".", ".", ".", ".", ".", ".", ".", ".", " ", "2">>,
       <<"E", "x", "p", "e", "r", "i", "e", "n", "c", "e", " ", ".", ".", ".", ".", ".", ".", ".", ".", ".", ".", ".", ".", ".", ".", ".", ".", ".", ".", ".", ".", ".", ".", ".", ".", ".", ".", ".", ".", ".", ".", " ", "3">>,
       <<"-", "-", "-", "-", "-", "-", "-", "-", "-", "-", "-", "-", "-", "-", "-", "-", "-", "-", "-", "-", "-", "-", "-", "-", "-", "-", "-", "-", "-", "-", "-", "-", "-", "-", "-", "-", "-", "-", "-", "-">>,
       <<"P", "y", "t", "h", "o", "n", " ", "d", "e", "v", "e", "l", "o", "p", "e", "r", ",", " ", "5", " ", "y", "e", "a", "r", "s", " ", "o", "f", " ", "e", "x", "p", "e", "r", "i", "e", "n", "c", "e">>,
       <<"L", "e", "d", " ", "t", "e", "a", "m", " ", "o", "f", " ", "3", ".">> >>

\* the lines of a page, joined by '\n'
RECURSIVE JoinLines(_)
JoinLines(ls) ==
    IF ls = <<>> THEN <<>>
    ELSE IF Len(ls) = 1 THEN ls[1]
    ELSE ls[1] \o <<"\n">> \o JoinLines(Tail(ls))

SparseTexts ==
    { JoinLines([k \in 1..Len(pick) |-> SparseLines[pick[k]]]) :
        pick \in UNION { [1..n -> 1..Len(SparseLines)] :
                           n \in 1..MaxSparseLines } }

InitSparse ==
    /\ analyzer = "advanced"
    /\ pc = "preprocess_text"
    /\ text = <<>>
    /\ extraction_metadata = NewMetadata
    /\ extraction_info = NewInfo
    /\ extracted_text = <<>>
    /\ attempts = <<>>
    /\ raw_words = 0
    /\ invoked = <<>>
    /\ score_in = Idle /\ score_breakdown = Idle
    /\ skill_text = Idle /\ skills_analysis = Idle /\ match_counts = Idle
    /\ rec_in = Idle /\ recommendations = Idle /\ warnings = Idle
    /\ exp_in = Idle /\ exp_analysis = Idle
    /\ sug_in = Idle /\ suggestions = Idle
    /\ now = 0
    /\ \E txt \in SparseTexts :
          /\ call = ValidatedCall(txt)
          /\ Len(StripChars(call.extracted_text)) >= MinMeaningfulText
    /\ reports = <<>>
    /\ reference_tables = Idle

NextSparse == PlainStage

SpecSparse == InitSparse /\ [][NextSparse]_vars

\* the call is past preprocess_text (line 1554)
CleanedBound == pc \in StageSet("advanced") \cup {"compile", "raise"}
                    /\ pc # "preprocess_text"

\* C30: whenever the skill matcher, the experience classifier and the
\* scorer of analyze_resume run, the normalized text they receive is not
\* empty: an extracted text that passed the 50-character validation is
\* preprocessed to a non-empty cleaned_text.
C30_CleanedTextNonEmpty ==
    CleanedBound => call.cleaned_text # <<>>

\* what the code holds to: the whole page is one line after the whitespace
\* is normalized, and cleaned_text is empty exactly when that line fails
\* the test of line 394
CleanedEmptyAsCoded ==
    CleanedBound =>
        LET line == StrippedLine(call.extracted_text)
        IN /\ call.cleaned_text \in {<<>>, line}
           /\ call.cleaned_text = <<>> <=> ~KeepsLine(line)
           /\ pc # "raise"

====
